---- MODULE Spec2Model ----
(***************************************************************************)
(* Model of codex-auto-continue.                                           *)
(*                                                                         *)
(*   Spec     the watcher process (bin/auto_continue_logwatch.py): the     *)
(*            poll loop of main(), its two tailed sources, the detector    *)
(*            and the send pipeline; the environment (files, pause         *)
(*            sentinels, pane) is read through the inputs of its steps.    *)
(***************************************************************************)
EXTENDS Integers, Sequences, FiniteSets, TLC

(***************************************************************************)
(* Bounds of the model.                                                    *)
(***************************************************************************)
MaxLog == 2
\* lines appended to codex-tui.log over a behaviour
MaxRollout == 1
\* lines appended to rollout files over a behaviour
MaxTicks == 1
\* clock advances over a behaviour
TickSecs == 6
\* seconds per clock advance
StartTime == 100
\* time.time() when the watcher starts (any value far above the thresholds)
MaxRestarts == 1
\* restarts of the watcher process over a behaviour
MaxPid == 3
\* the pids of the process table are 1..MaxPid
MaxSlots == 2
\* supervisor invocations that can be in progress at once
MaxCmds == 2
\* supervisor commands issued in a run
MaxEnv == 1
\* things that happen to the supervisor's processes in a run without its doing:
\* a watcher started by hand, a watcher exiting on its own, an unrelated
\* process taking a pid, a watcher saving its state file, a pause sentinel
\* made or removed

(***************************************************************************)
(* Values.                                                                 *)
(***************************************************************************)
Threads == {"A", "B"}
Turns == {"t1", "t2"}
NoThread == ""
NoTurn == ""

\* argparse values of --cooldown-secs and --auto-rebind-idle-secs the model draws
CooldownChoices == {-1, 1}
IdleChoices == {4}
\* the default of --auto-rebind-idle-secs
DefaultIdleSecs == 20

\* the rescan interval of the rollout discovery, in seconds
RescanSecs == 5

Max0(x) == IF x > 0 THEN x ELSE 0

\* A line of codex-tui.log: one that EVENT_RE matches (needs_follow_up=true is
\* drawn for one turn only), or any other line.
LogLines ==
    [kind : {"post_sampling"}, thread : Threads, turn : Turns, nfu : {"false"}]
    \cup [kind : {"post_sampling"}, thread : Threads, turn : {"t1"}, nfu : {"true"}]
    \cup {[kind |-> "other"]}

\* A line of a rollout JSONL file: a JSON object with its type, its payload's type
\* and turn_id, a line that is no JSON, or a line that is JSON but no object
\* (null, a number, a string, a list).
RolloutLines ==
    [kind : {"json"}, type : {"event_msg"}, ptype : {"task_complete"}, turn : Turns]
    \cup {[kind |-> "json", type |-> "event_msg", ptype |-> "task_complete", turn |-> NoTurn],
          [kind |-> "json", type |-> "event_msg", ptype |-> "token_count", turn |-> "t1"],
          [kind |-> "json", type |-> "response_item", ptype |-> "task_complete", turn |-> "t1"],
          [kind |-> "malformed"],
          [kind |-> "json_value"]}

VARIABLES
    \* --- the watcher process -------------------------------------------
    args,                   \* parsed command line
    watched_thread,
    last_sent_turn,
    last_sent_thread,
    last_send_time,
    watched_last_event_at,
    codex_fh,               \* the handle on codex-tui.log: closed, or open at an offset (in lines)
    rollout_fh,             \* the handle on the tracked rollout file
    rollout_path,           \* NoThread, or the thread whose rollout file is tracked
    last_rollout_scan,
    events,                 \* the events drained by the current poll cycle
    alive,                \* the watcher process has not ended on an exception
    \* --- files and environment -----------------------------------------
    state_file,             \* the watcher state file (JSON object)
    codex_log,              \* the size of codex-tui.log, in lines
    now,
    \* --- history ---------------------------------------------------------
    last,                   \* what the latest step of the watcher did
    sent,                   \* the successful sends so far
    idle_since,             \* when the bound thread was bound or last had an event processed
    used                    \* rollout lines read and restarts made so far

VARIABLES
    \* --- the supervisor's world ----------------------------------------
    proc,                   \* the process table: pid -> process
    pid_file,               \* pane -> the pid in the pane's PID file, NoPid when there is none
    meta,                   \* pane -> the pane's message meta file
    state_files,            \* pane -> the thread_id in the pane's watcher state file
    sentinels,              \* the pause sentinels that exist
    inv,                    \* the supervisor invocations in progress
    \* --- history ---------------------------------------------------------
    sup_last,               \* what the latest step of a supervisor invocation did
    sup_used                \* commands, hand-started watchers, crashes and foreign processes so far

sup_vars == <<proc, pid_file, meta, state_files, sentinels, inv, sup_last, sup_used>>

VARIABLES
    \* --- one tail of the watcher, looked at with the content of its file --
    file,                   \* the file at the tailed path: its inode and its lines
    fh,                     \* the handle of the tail: closed, or open on an inode at an offset
    emitted,                \* the lines that have become events, as <<inode, line number>>
    tail_last,              \* what the latest step of the tail or of the file's writer did
    \* --- one call of tmux_send --------------------------------------------
    tmux_call,              \* what tmux answers to the call, and what the call returned
    \* --- one call of a function of the supervisor --------------------------
    call                    \* the function, what it is given and finds, and what it returned

tail_vars == <<file, fh, emitted, tail_last>>

\* What is looked at in a specification of its own.
aside == <<tail_vars, tmux_call, call>>

vars == <<args, watched_thread, last_sent_turn, last_sent_thread, last_send_time,
          watched_last_event_at, codex_fh, rollout_fh, rollout_path, last_rollout_scan,
          events, state_file, codex_log, now, last, sent, idle_since, used, sup_vars,
          alive, aside>>

\* The watcher with its files, its clock and its history.
whole_watcher == <<args, watched_thread, last_sent_turn, last_sent_thread, last_send_time,
                   watched_last_event_at, codex_fh, rollout_fh, rollout_path,
                   last_rollout_scan, events, state_file, codex_log, now, last, sent,
                   idle_since, used, alive>>

\* What stands still while the supervisor is looked at.
parked == <<whole_watcher, aside>>

watcher_vars == <<args, watched_thread, last_sent_turn, last_sent_thread, last_send_time,
                  watched_last_event_at, codex_fh, rollout_fh, rollout_path,
                  last_rollout_scan, events, state_file, sent, idle_since, alive>>

(***************************************************************************)
(* The supervisor, auto_continue_watchd.py.  A message value and the text  *)
(* of a meta file are sequences of tokens: "\n" is the newline, "mode="    *)
(* and "value=" are the two prefixes the meta reader looks for, any other  *)
(* token is ordinary text.                                                 *)
(***************************************************************************)
Pids == 1..MaxPid

Slots == 1..MaxSlots

Panes == {"%1", "%2"}

\* _read_pid_file returns None: no PID file, or nothing in it.
NoPid == 0

NoMsg == [mode |-> "", value |-> <<>>]

DEFAULT_MSG_FILE == <<"auto_continue.message.txt">>

\* Lines 527-528: the message when the command line gives none.
DefaultMsg == [mode |-> "file", value |-> DEFAULT_MSG_FILE]

\* The messages a command line gives.
MsgChoices ==
    {[mode |-> "inline", value |-> <<"go">>],
     [mode |-> "inline", value |-> <<"go", "\n">>]}

NoMeta == [exists |-> FALSE, text |-> <<>>]

\* Lines 567-571
write_message_meta(mode, value) ==
    [exists |-> TRUE, text |-> <<"mode=", mode, "\n", "value=">> \o value \o <<"\n">>]

\* The lines a file iteration yields, each with its "\n" stripped (lines 581-582).
RECURSIVE FileLines(_)
FileLines(text) ==
    IF text = <<>> THEN <<>>
    ELSE LET nl == {i \in 1..Len(text) : text[i] = "\n"}
         IN  IF nl = {} THEN <<text>>
             ELSE LET k == CHOOSE i \in nl : \A j \in nl : i <= j
                  IN  <<SubSeq(text, 1, k - 1)>> \o FileLines(SubSeq(text, k + 1, Len(text)))

\* Lines 583-590: the reader's loop over the lines.
RECURSIVE ReadMetaLines(_, _)
ReadMetaLines(lines, acc) ==
    IF lines = <<>> THEN acc
    ELSE LET line == Head(lines)
             acc1 == IF line # <<>> /\ line[1] = "mode="
                         THEN [acc EXCEPT !.mode = Tail(line), !.in_value = FALSE]
                     ELSE IF line # <<>> /\ line[1] = "value="
                         THEN [acc EXCEPT !.value_lines = <<Tail(line)>>, !.in_value = TRUE]
                     ELSE IF acc.in_value
                         THEN [acc EXCEPT !.value_lines = Append(@, line)]
                     ELSE acc
         IN  ReadMetaLines(Tail(lines), acc1)

\* "\n".join(lines), line 593
RECURSIVE JoinLines(_)
JoinLines(lines) ==
    IF lines = <<>> THEN <<>>
    ELSE IF Len(lines) = 1 THEN lines[1]
    ELSE lines[1] \o <<"\n">> \o JoinLines(Tail(lines))

\* Lines 574-599: the (mode, value) read from a meta file, NoMsg for None.
read_message_meta_for_key(m) ==
    IF ~m.exists THEN NoMsg
    ELSE LET acc == ReadMetaLines(FileLines(m.text),
                                  [mode |-> <<>>, value_lines |-> <<>>, in_value |-> FALSE])
             joined == JoinLines(acc.value_lines)
             value == IF joined # <<>> /\ joined[Len(joined)] = "\n"
                      THEN SubSeq(joined, 1, Len(joined) - 1)
                      ELSE joined
         IN  IF acc.mode \in {<<"inline">>, <<"file">>}
             THEN [mode |-> acc.mode[1], value |-> value]
             ELSE NoMsg

\* --- processes -----------------------------------------------------------
\* kind: "none" (free pid), "watcher" (a running auto_continue_logwatch.py),
\* "zombie" (an exited child not yet reaped), "other" (an unrelated process);
\* term: SIGTERM has been sent and not yet acted on; stopped: the process is
\* suspended (SIGSTOP), and acts on SIGTERM only once SIGCONT wakes it;
\* by: who started a watcher.
NoProc ==
    [kind |-> "none", pane |-> "", thread |-> NoThread, msg |-> NoMsg, term |-> FALSE,
     stopped |-> FALSE, by |-> ""]

WatcherProc(pane, thread_id, msg, by) ==
    [kind |-> "watcher", pane |-> pane, thread |-> thread_id, msg |-> msg, term |-> FALSE,
     stopped |-> FALSE, by |-> by]

OtherProc == [NoProc EXCEPT !.kind = "other"]

Zombie == [NoProc EXCEPT !.kind = "zombie"]

\* The pid a new process gets: the lowest free one, none when the table is full.
FreePids ==
    LET free == {p \in Pids : proc[p].kind = "none"}
    IN  {p \in free : \A q \in free : p <= q}

\* A thread id written with capital hexadecimal digits: that of thread A.
UpperA == "A in capitals"

\* Lines 24-26: the strings THREAD_ID_RE matches in full.
WellFormed == Threads \cup {UpperA}

\* str.lower() on the strings of the model: "auto", "" and the ids in small
\* letters have no capital.
lower(s) == IF s = UpperA THEN "A" ELSE s

\* Line 112
is_thread_id(s) == s \in WellFormed

\* Lines 656-701: the pids of the running watchers of a pane, as ps lists them.
watcher_pids_for_pane(pane) ==
    {p \in Pids : proc[p].kind = "watcher" /\ proc[p].pane = pane}

FirstRow(rows) == CHOOSE p \in rows : \A q \in rows : p <= q

\* Lines 656-697 without a pane filter: the pids of all running watchers.
watcher_rows == {p \in Pids : proc[p].kind = "watcher"}

\* A test that finds no process stopped, as where /proc cannot be read.
is_pid_stoppedNever(p) == FALSE

\* Lines 704-713: the process is in state T.
is_pid_stopped(p) == proc[p].kind # "none" /\ proc[p].stopped

\* os.kill(pid, sig) for every pid of a set, on the process table t.
Kill(t, pids, sig) ==
    [p \in Pids |->
        IF p \notin pids \/ t[p].kind \in {"none", "zombie"} THEN t[p]
        ELSE IF sig = "SIGSTOP" THEN [t[p] EXCEPT !.stopped = TRUE]
        ELSE IF sig = "SIGCONT" THEN [t[p] EXCEPT !.stopped = FALSE]
        ELSE [t[p] EXCEPT !.term = TRUE]]

\* Lines 716-724: os.kill(pid, 0) succeeds for any process, a zombie included.
is_running_pid_file(pane) ==
    pid_file[pane] # NoPid /\ proc[pid_file[pane]].kind # "none"

\* Lines 727-734
thread_from_running_watcher_for_pane(pane) ==
    LET rows == watcher_pids_for_pane(pane)
    IN  IF rows = {} THEN NoThread
        ELSE IF is_thread_id(proc[FirstRow(rows)].thread) THEN proc[FirstRow(rows)].thread
        ELSE NoThread

\* The text of a state file that write_text has opened (and so emptied) and not
\* yet written, or written in part: it does not parse as JSON.
Torn == "torn"

\* Lines 737-749
thread_from_state_file_for_key(pane) ==
    IF is_thread_id(state_files[pane]) THEN state_files[pane] ELSE NoThread

\* sys.exit(1) in place of a returned thread id.
ExitError == "exit 1"

\* A detection that looks at the controlling terminal first.
detect_thread_id_for_paneTtyFirst(fd, snapshot, tty) ==
    IF tty # NoThread /\ is_thread_id(tty) THEN tty
    ELSE IF fd # NoThread /\ is_thread_id(fd) THEN fd
    ELSE IF snapshot # NoThread /\ is_thread_id(snapshot) THEN snapshot
    ELSE NoThread

\* Lines 482-493: fd, snapshot and tty are what detect_thread_from_proc_fd,
\* detect_thread_from_shell_snapshot and detect_thread_from_pane_tty return
\* (NoThread for None).
detect_thread_id_for_pane(fd, snapshot, tty) ==
    IF fd # NoThread /\ is_thread_id(fd) THEN fd
    ELSE IF snapshot # NoThread /\ is_thread_id(snapshot) THEN snapshot
    ELSE IF tty # NoThread /\ is_thread_id(tty) THEN tty
    ELSE NoThread

\* Lines 482-493: the strategies that are run, in the order they are run.
DetectionsRun(fd, snapshot, tty) ==
    IF fd # NoThread /\ is_thread_id(fd) THEN <<"fd">>
    ELSE IF snapshot # NoThread /\ is_thread_id(snapshot) THEN <<"fd", "snapshot">>
    ELSE <<"fd", "snapshot", "tty">>

\* A resolution that returns a requested id as it was written.
resolve_thread_idAsWritten(requested, detected) ==
    IF requested # "" /\ requested # "auto"
    THEN IF is_thread_id(requested) THEN requested ELSE ExitError
    ELSE IF detected # NoThread /\ is_thread_id(detected) THEN detected
    ELSE "auto"

\* Lines 496-514; detected is what detect_thread_id_for_pane finds (NoThread
\* for None).
resolve_thread_id(requested, detected) ==
    IF requested # "" /\ requested # "auto"
    THEN IF is_thread_id(requested) THEN lower(requested) ELSE ExitError
    ELSE IF detected # NoThread /\ is_thread_id(detected) THEN detected
    ELSE "auto"

\* Lines 1475-1477: the PID files left after those of dead pids are removed.
CleanPidFiles == [k \in Panes |-> IF is_running_pid_file(k) THEN pid_file[k] ELSE NoPid]

\* Lines 752-771, after the PID files of dead pids are gone.
collect_known_keys ==
    {proc[p].pane : p \in {q \in Pids : proc[q].kind = "watcher"}}
        \cup {k \in Panes : state_files[k] # NoThread}
        \cup {k \in Panes : CleanPidFiles[k] # NoPid}

\* Lines 1497-1503
CleanMeta == [k \in Panes |-> IF k \in collect_known_keys THEN meta[k] ELSE NoMeta]

\* --- file names ----------------------------------------------------------
\* A file name is a stem, a key ("" when the name has none) and an ending.
\* Lines 116-133: the files of a pane key in STATE_DIR.
PidFileName(k) == [stem |-> "auto_continue_logwatch", key |-> k, ext |-> ".pid"]

MetaFileName(k) == [stem |-> "auto_continue_logwatch", key |-> k, ext |-> ".message.local.txt"]

\* logwatch lines 233-234: the sentinels, in <cwd>/.codex, which is STATE_DIR
\* when the project directory is the home directory.
GlobalPause == [stem |-> "AUTO_CONTINUE_PAUSE", key |-> "", ext |-> ""]

PanePause(k) == [stem |-> "AUTO_CONTINUE_PAUSE", key |-> k, ext |-> ""]

SentinelFiles == {GlobalPause, PanePause("%1")}

\* Lines 1475, 1490-1491 and 1501: the patterns cleanup_stale_files globs for.
CleanupGlobs ==
    {[stem |-> "auto_continue_logwatch", ext |-> e] :
        e \in {".pid", ".log", ".runner.log", ".message.local.txt"}}

\* A match that takes every name, as of the pattern "*".
fnmatchAny(f, g) == TRUE

\* glob's match of a name against a pattern stem*ending.
fnmatch(f, g) == f.stem = g.stem /\ f.ext = g.ext

\* Lines 1472-1503 on the sentinels: a name a pattern matches is removed
\* unless it is the file of a running pid or of a known key, which no
\* sentinel is.
CleanSentinels == {f \in sentinels : ~\E g \in CleanupGlobs : fnmatch(f, g)}

\* The files cleanup_stale_files removes.
CleanupUnlinked ==
    {PidFileName(k) : k \in {j \in Panes : pid_file[j] # NoPid /\ CleanPidFiles[j] = NoPid}}
        \cup {MetaFileName(k) : k \in {j \in Panes : meta[j].exists /\ ~CleanMeta[j].exists}}
        \cup (sentinels \ CleanSentinels)

\* --- invocations ---------------------------------------------------------
IdleInv ==
    [pc |-> "idle", cmd |-> "", pane |-> "", thread_arg |-> NoThread, msg |-> NoMsg,
     implicit |-> FALSE, child |-> NoPid, old |-> NoProc, all |-> FALSE, todo |-> <<>>]

\* cmd_start or cmd_restart returns: the invocation is over, or, in the loop of
\* restart-all (lines 1207-1233), the next key is looked at.
Return(me) ==
    IF me.all THEN [IdleInv EXCEPT !.pc = "all", !.all = TRUE, !.todo = me.todo]
    ELSE IdleInv

\* The record of a supervisor step: which invocation, what it saw (whether the
\* PID file was live, the watchers found), what it reported, the process it
\* spawned and, for a restart, the watcher it replaces.
\* For the signalling commands: the pids found stopped, the pids sent the
\* command's signal (for stop: SIGCONT), and the lines printed per pid; torn:
\* the step has read a state file that was empty or partial; unlinked: the
\* files the cleanup of main has removed; health: the health keys status has
\* read, per pane.
SupStep(op, i) ==
    [op |-> op, i |-> i, pane |-> "", live |-> FALSE, found |-> {}, outcome |-> "",
     child |-> NoPid, new |-> NoProc, old |-> NoProc, implicit |-> FALSE,
     pid_written |-> NoPid, was_stopped |-> {}, signalled |-> {}, reports |-> {},
     torn |-> FALSE, unlinked |-> {}, health |-> [k \in Panes |-> ""],
     chosen |-> [thread |-> NoThread, msg |-> NoMsg], exists |-> TRUE, all |-> FALSE]

\* No process, no invocation and, but for PID files, an empty STATE_DIR.
SupEmpty ==
    /\ proc = [p \in Pids |-> NoProc]
    /\ meta = [k \in Panes |-> NoMeta]
    /\ state_files = [k \in Panes |-> NoThread]
    /\ sentinels = {}
    /\ inv = [i \in Slots |-> IdleInv]
    /\ sup_last = SupStep("", 0)
    /\ sup_used = [cmds |-> 0, env |-> 0]

SupIdle ==
    /\ SupEmpty
    /\ pid_file = [k \in Panes |-> NoPid]

\* The PID files an earlier run has left: none, or the one of a watcher that
\* was killed without the supervisor.
StalePidFiles ==
    {[k \in Panes |-> NoPid], [k \in Panes |-> IF k = "%1" THEN 1 ELSE NoPid]}

(***************************************************************************)
(* Pure helpers of auto_continue_logwatch.py.                              *)
(***************************************************************************)
ClosedFh == [open |-> FALSE, pos |-> 0]
OpenFh(pos) == [open |-> TRUE, pos |-> pos]

NoMatch == [matched |-> FALSE, thread |-> NoThread, turn |-> NoTurn, nfu |-> ""]

\* EVENT_RE.search(line): the (thread_id, turn_id, needs_follow_up) groups.
EVENT_RE(line) ==
    IF line.kind = "post_sampling"
    THEN [matched |-> TRUE, thread |-> line.thread, turn |-> line.turn, nfu |-> line.nfu]
    ELSE NoMatch

\* parse_rollout_event(line): the turn_id of a task_complete event_msg; NoTurn for None.
\* Line 53: obj.get raises AttributeError on a JSON value that is no object; no
\* caller catches it and the process ends.
parse_raises(line) == line.kind = "json_value"

\* Lines 47-60, for the lines that do not raise.
parse_rollout_event(line) ==
    IF line.kind # "json" THEN NoTurn
    ELSE IF line.type # "event_msg" THEN NoTurn
    ELSE IF line.ptype # "task_complete" THEN NoTurn
    ELSE line.turn

\* The listings of SESSIONS_DIR the model draws: the threads that have a rollout
\* file, and the one whose file was modified last.
Listings ==
    {[files |-> {}, latest |-> NoThread]}
    \cup {[files |-> F, latest |-> t] : <<F, t>> \in {x \in (SUBSET Threads) \X Threads : x[2] \in x[1]}}

NoFiles == [files |-> {}, latest |-> NoThread]

\* The listings that differ in what a search looks at: for a watched thread,
\* whether its rollout file is there (find_rollout_file); for none, which
\* thread's file is the latest (find_latest_rollout).
Looked(watched) ==
    {NoFiles} \cup {[files |-> {t}, latest |-> t] :
                        t \in (IF watched = NoThread THEN Threads ELSE {watched})}

\* find_rollout_file(thread_id, SESSIONS_DIR); NoThread for None.
find_rollout_file(thread_id, dir) ==
    IF thread_id \in dir.files THEN thread_id ELSE NoThread

\* find_latest_rollout(SESSIONS_DIR): the most recently modified rollout file.
find_latest_rollout(dir) ==
    IF dir.files = {} THEN NoThread ELSE dir.latest

\* discover_thread_id(log_path): the thread of the latest post-sampling line of the
\* log (recent, NoThread when the backscan finds none), then the rollout fallback.
discover_thread_id(recent, dir) ==
    IF recent # NoThread THEN recent
    ELSE find_latest_rollout(dir)

\* The state file when it is missing or unreadable: read_state returns {}.
NoStateFile ==
    [exists |-> FALSE, last_sent_turn |-> NoTurn, last_sent_thread |-> NoThread,
     thread_id |-> NoThread, health |-> ""]

\* A write that leaves the thread_id key as it was read at startup.
write_stateSentOnly(state, turn_id, thread_id, watched) ==
    [state EXCEPT !.exists = TRUE, !.last_sent_turn = turn_id,
                  !.last_sent_thread = thread_id]

\* write_state(path, state) with the three keys main() sets; the other keys of
\* the state read at startup are written back as they were.
write_state(state, turn_id, thread_id, watched) ==
    [state EXCEPT !.exists = TRUE, !.last_sent_turn = turn_id,
                  !.last_sent_thread = thread_id, !.thread_id = watched]

\* A state column that shows every health key there is, "ok" too.
compute_stateAnyHealth(stopped, health) ==
    IF stopped THEN "paused"
    ELSE IF health # "" THEN health
    ELSE "running"

\* watchd lines 1332-1339: the state status shows for a watcher, from whether
\* its process is stopped and the health key of its state file ("" when absent).
compute_state(stopped, health) ==
    IF stopped THEN "paused"
    ELSE IF health # "" /\ health # "ok" THEN health
    ELSE "running"

\* What tmux answers to the calls of one tmux_send: whether the pane is in copy
\* mode before an attempt, and whether the send-keys call for the text and the
\* one for Enter return 0, for the first and for the second attempt.
AllOk ==
    [mode1 |-> FALSE, text1 |-> TRUE, enter1 |-> TRUE,
     mode2 |-> FALSE, text2 |-> TRUE, enter2 |-> TRUE]

\* The answers the model draws: every call succeeds (the pane in copy mode or
\* not), one call of the first attempt fails and the retry succeeds, every call fails.
TmuxChoices ==
    {AllOk,
     [AllOk EXCEPT !.mode1 = TRUE],
     [AllOk EXCEPT !.text1 = FALSE],
     [AllOk EXCEPT !.enter1 = FALSE],
     [AllOk EXCEPT !.text1 = FALSE, !.enter1 = FALSE, !.text2 = FALSE, !.enter2 = FALSE]}

\* Lines 134-136: the key the pane receives to leave copy mode.
tmux_cancel_mode_if_needed(in_mode) == IF in_mode THEN <<"cancel">> ELSE <<>>

\* Lines 139-155: the text is sent, then Enter whatever became of the text;
\* keys are the keys the pane has received, calls the send-keys commands run,
\* detail the return-code parts of the diagnostic (what tmux printed follows
\* them in the code's string).
tmux_send_once(text_ok, enter_ok) ==
    [ok |-> text_ok /\ enter_ok,
     keys |-> (IF text_ok THEN <<"text">> ELSE <<>>) \o (IF enter_ok THEN <<"C-m">> ELSE <<>>),
     calls |-> <<"text", "C-m">>,
     detail |-> (IF text_ok THEN <<>> ELSE <<"send-text rc">>)
                \o (IF enter_ok THEN <<>> ELSE <<"send-enter rc">>)]

\* A tmux_send that makes its second attempt whatever the first returned.
tmux_sendTwice(r) ==
    LET first == tmux_send_once(r.text1, r.enter1)
        second == tmux_send_once(r.text2, r.enter2)
    IN  [ok |-> first.ok \/ second.ok,
         keys |-> tmux_cancel_mode_if_needed(r.mode1) \o first.keys
                  \o tmux_cancel_mode_if_needed(r.mode2) \o second.keys]

\* A tmux_send that gives up after its first attempt.
tmux_sendNoRetry(r) ==
    LET first == tmux_send_once(r.text1, r.enter1)
    IN  [ok |-> first.ok, detail |-> IF first.ok THEN <<>> ELSE first.detail,
         attempts |-> 1,
         calls |-> tmux_cancel_mode_if_needed(r.mode1) \o first.calls,
         keys |-> tmux_cancel_mode_if_needed(r.mode1) \o first.keys]

\* Lines 158-172: tmux_send(pane, msg, delay); a second attempt is made when the
\* first failed.  The detail returned is "" (the empty sequence) on success.
tmux_send(r) ==
    LET first == tmux_send_once(r.text1, r.enter1)
        second == tmux_send_once(r.text2, r.enter2)
        calls1 == tmux_cancel_mode_if_needed(r.mode1) \o first.calls
        keys1 == tmux_cancel_mode_if_needed(r.mode1) \o first.keys
        calls2 == calls1 \o tmux_cancel_mode_if_needed(r.mode2) \o second.calls
        keys2 == keys1 \o tmux_cancel_mode_if_needed(r.mode2) \o second.keys
    IN  IF first.ok
        THEN [ok |-> TRUE, detail |-> <<>>, attempts |-> 1, calls |-> calls1, keys |-> keys1]
        ELSE IF second.ok
        THEN [ok |-> TRUE, detail |-> <<>>, attempts |-> 2, calls |-> calls2, keys |-> keys2]
        ELSE [ok |-> FALSE,
              detail |-> (IF first.detail # <<>> /\ second.detail # <<>>
                          THEN first.detail \o <<"retry:">> \o second.detail
                          ELSE IF second.detail # <<>> THEN second.detail
                          ELSE first.detail),
              attempts |-> 2, calls |-> calls2, keys |-> keys2]


(***************************************************************************)
(* The environment is read through the inputs of each step: the lines      *)
(* Codex has appended to the tailed files since the previous poll cycle,   *)
(* the listing of SESSIONS_DIR, the pause sentinels, the pane.  codex_log  *)
(* is the size of codex-tui.log in lines.                                  *)
(***************************************************************************)

\* The sequences of at most n elements of S.
SeqUpTo(S, n) == UNION {[1..k -> S] : k \in 0..n}

\* A watcher that takes every run for an auto-mode run.
auto_modeAlways == TRUE

\* Line 247: the watcher was started with the thread id "auto".
auto_mode == args.thread_id = "auto"

NoEvent == [thread |-> NoThread, turn |-> NoTurn, nfu |-> "", src |-> ""]

NoGates == [pause |-> FALSE, pane_pause |-> FALSE, inactive |-> FALSE, cooldown |-> FALSE]

\* The successful sends so far: the latest one (its thread, turn and source, and
\* when this process made it, 0 when it has made none), and which source's events
\* led to a send of which (thread, turn); the (thread, turn) this process read
\* from the state file when it started; the events of the current poll cycle
\* whose send failed.
NoSends ==
    [thread |-> NoThread, turn |-> NoTurn, src |-> "", at |-> 0, by |-> {},
     loaded |-> <<NoThread, NoTurn>>, failed |-> {}]

\* Since when the bound thread has had no event: when it was bound or last had an
\* event processed; startup when it was bound at startup and has had none since.
NotIdle == [at |-> 0, startup |-> FALSE]

\* The record of a step that is not the processing of an event; logged are the
\* entries the step appends to the watch log, fresh the sources whose file the
\* step has opened, keys the keys the pane has received, accepting whether the
\* pane took the text and Enter at the first attempt.
Step(op, logged) ==
    [op |-> op, ev |-> NoEvent, outcome |-> "", prev_outcome |-> "",
     pre_watched |-> NoThread, pre_sent |-> NoSends, pre_idle |-> NotIdle,
     tnow |-> 0, gates |-> NoGates, calls |-> 0, wrote |-> FALSE, logged |-> logged,
     fresh |-> {}, keys |-> <<>>, accepting |-> FALSE]

(***************************************************************************)
(* Startup of main(): lines 243-269.                                       *)
(***************************************************************************)
Startup(a, recent, dir) ==
    LET watched == IF a.thread_id = "auto" THEN discover_thread_id(recent, dir)
                   ELSE a.thread_id
        path == IF watched # NoThread THEN find_rollout_file(watched, dir) ELSE NoThread
    IN  /\ args' = a
        /\ last_sent_turn' = state_file.last_sent_turn
        /\ last_sent_thread' = state_file.last_sent_thread
        /\ watched_thread' = watched
        /\ last_send_time' = 0
        /\ watched_last_event_at' = 0
        /\ codex_fh' = ClosedFh
        /\ rollout_fh' = ClosedFh
        /\ rollout_path' = path
        /\ last_rollout_scan' = 0
        /\ events' = <<>>
        /\ alive' = TRUE
        /\ idle_since' = [at |-> now, startup |-> TRUE]
        /\ last' = Step("start",
                        (IF watched = NoThread THEN <<"warn: no thread">> ELSE <<"watch">>)
                        \o (IF path # NoThread THEN <<"rollout: watching">> ELSE <<>>))

\* The command lines the model draws: auto mode with no gate configured, and an
\* explicit thread with every gate configured (a cooldown, the pane required to
\* be active) or none; --auto-rebind-idle-secs is only read in auto mode.
GateChoices ==
    {[cooldown_secs |-> c, require_pane_active |-> c > 0] : c \in CooldownChoices}

ArgsChoices ==
    {[thread_id |-> "auto", auto_rebind_idle_secs |-> i,
      cooldown_secs |-> g.cooldown_secs, require_pane_active |-> g.require_pane_active] :
        i \in IdleChoices, g \in {x \in GateChoices : x.cooldown_secs <= 0}}
    \cup
    {[thread_id |-> "A", auto_rebind_idle_secs |-> DefaultIdleSecs,
      cooldown_secs |-> g.cooldown_secs, require_pane_active |-> g.require_pane_active] :
        g \in GateChoices}

\* A closed handle of the tail that is looked at on its own.
NoFh == [open |-> FALSE, pos |-> 0, ino |-> 0, gen |-> 0]

\* The tail before its first poll: the file is there and empty, no handle is open
\* (codex_fh and rollout_fh are None when main() enters its loop).
TailIdle ==
    /\ file = [exists |-> TRUE, ino |-> 1, gen |-> 1, lines |-> <<>>]
    /\ fh = NoFh
    /\ emitted = {}
    /\ tail_last = [op |-> "start", appends |-> 0, cuts |-> 0, held |-> FALSE,
                    slept |-> {}]

\* No call of tmux_send is looked at.
NoCall == [ok |-> FALSE, detail |-> <<>>, attempts |-> 0, calls |-> <<>>, keys |-> <<>>]

TmuxIdle == tmux_call = [answers |-> AllOk, made |-> FALSE, result |-> NoCall]

\* No function of the supervisor is looked at on its own.
CallIdle == call = [fn |-> "", made |-> FALSE]

\* The watcher has started in a fresh home: an empty log, no rollout file, no state file.
InitWatcher ==
    /\ args \in ArgsChoices
    /\ state_file = NoStateFile
    /\ codex_log = 0
    /\ now = StartTime
    /\ sent = NoSends
    /\ used = [rollout |-> 0, restarts |-> 0]
    /\ last_sent_turn = NoTurn
    /\ last_sent_thread = NoThread
    /\ watched_thread = (IF args.thread_id = "auto" THEN NoThread ELSE args.thread_id)
    /\ last_send_time = 0
    /\ watched_last_event_at = 0
    /\ codex_fh = ClosedFh
    /\ rollout_fh = ClosedFh
    /\ rollout_path = NoThread
    /\ last_rollout_scan = 0
    /\ events = <<>>
    /\ alive = TRUE
    /\ idle_since = [at |-> StartTime, startup |-> TRUE]
    /\ last = Step("start", IF args.thread_id = "auto" THEN <<"warn: no thread">>
                             ELSE <<"watch">>)

Init == InitWatcher /\ SupIdle /\ TailIdle /\ TmuxIdle /\ CallIdle

(***************************************************************************)
(* One poll cycle up to the processing of its events: lines 272-333.       *)
(***************************************************************************)

\* The events of the codex-tui.log lines read, in read order (lines 280-286).
LogEvents(lines) ==
    LET hits == SelectSeq(lines, LAMBDA l : EVENT_RE(l).matched)
    IN  [i \in 1..Len(hits) |->
            [thread |-> EVENT_RE(hits[i]).thread, turn |-> EVENT_RE(hits[i]).turn,
             nfu |-> EVENT_RE(hits[i]).nfu, src |-> "log"]]

\* The events of the rollout lines read, in read order (lines 319-325).
RolloutEvents(lines, watched) ==
    LET hits == SelectSeq(lines, LAMBDA l : parse_rollout_event(l) # NoTurn /\ watched # NoThread)
    IN  [i \in 1..Len(hits) |->
            [thread |-> watched, turn |-> parse_rollout_event(hits[i]), nfu |-> "false",
             src |-> "rollout"]]

\* A cycle that puts the events of the rollout file before those of the log.
CollectedRolloutFirst(log_lines, rollout_lines, watched) ==
    RolloutEvents(rollout_lines, watched) \o LogEvents(log_lines)

\* Lines 272, 286 and 325: the list `events` of a cycle, appended to by the poll
\* of codex-tui.log and then by the poll of the rollout file.
Collected(log_lines, rollout_lines, watched) ==
    LogEvents(log_lines) \o RolloutEvents(rollout_lines, watched)

\* A rollout discovery on every poll cycle while no file is tracked.
ScanDueEveryCycle(tnow) == rollout_path = NoThread

\* Line 297: is the rollout discovery due?
ScanDue(tnow) == rollout_path = NoThread /\ tnow - last_rollout_scan > RescanSecs

Poll ==
    /\ alive
    /\ events = <<>>
    \* what is not looked at is not drawn: of the lines a handle opened now
    \* skips only their number, of the listing only the file looked for
    /\ \E new_log \in (IF codex_fh.open THEN SeqUpTo(LogLines, MaxLog - codex_log)
                       ELSE SeqUpTo({[kind |-> "other"]}, MaxLog - codex_log)),
          new_rollout \in (IF rollout_fh.open
                           THEN SeqUpTo(RolloutLines, MaxRollout - used.rollout)
                           ELSE {<<>>}),
          dir \in (IF ScanDue(now) THEN Looked(watched_thread) ELSE {NoFiles}) :
        LET tnow == now
            \* --- Poll codex-tui.log (lines 276-294): a handle opened now is at the end
            log_lines == IF codex_fh.open THEN new_log ELSE <<>>
            size == codex_log + Len(new_log)
            log_pos == IF codex_fh.open THEN codex_fh.pos + Len(log_lines) ELSE size
            \* --- Discover/refresh rollout file (lines 297-312) ---
            scan == ScanDue(tnow)
            found == IF scan /\ watched_thread # NoThread
                     THEN find_rollout_file(watched_thread, dir) ELSE NoThread
            result == IF scan /\ watched_thread = NoThread /\ auto_mode
                      THEN find_latest_rollout(dir) ELSE NoThread
            watched1 == IF result # NoThread THEN result ELSE watched_thread
            path1 == IF found # NoThread THEN found
                     ELSE IF result # NoThread THEN result
                     ELSE rollout_path
            \* --- Poll rollout JSONL (lines 315-333) ---
            rollout_lines == IF path1 # NoThread /\ rollout_fh.open THEN new_rollout ELSE <<>>
            raised == \E i \in DOMAIN rollout_lines : parse_raises(rollout_lines[i])
        IN  /\ codex_log' = size
            /\ used' = [used EXCEPT !.rollout = @ + Len(new_rollout)]
            /\ alive' = ~raised
            /\ IF raised
               THEN \* the process has ended; what it held is of no further use
                    /\ new_log = <<>>
                    /\ last' = Step("raise", <<>>)
                    /\ UNCHANGED <<codex_fh, last_rollout_scan, watched_thread, rollout_path,
                                   watched_last_event_at, idle_since, rollout_fh, events,
                                   sent>>
               ELSE /\ codex_fh' = (IF log_pos > size THEN ClosedFh ELSE OpenFh(log_pos))
                    /\ last_rollout_scan' = (IF scan THEN tnow ELSE last_rollout_scan)
                    /\ watched_thread' = watched1
                    /\ rollout_path' = path1
                    /\ watched_last_event_at' = (IF result # NoThread THEN tnow ELSE watched_last_event_at)
                    /\ idle_since' = (IF result # NoThread THEN [at |-> tnow, startup |-> FALSE]
                                      ELSE idle_since)
                    /\ rollout_fh' = (IF path1 # NoThread THEN OpenFh(0) ELSE rollout_fh)
                    /\ events' = Collected(log_lines, rollout_lines, watched1)
                    /\ last' = [Step("poll",
                                     (IF found # NoThread THEN <<"rollout: watching">> ELSE <<>>)
                                     \o (IF result # NoThread THEN <<"watch: auto-selected from rollout">>
                                         ELSE <<>>))
                                   EXCEPT !.fresh = (IF codex_fh.open THEN {} ELSE {"log"})
                                                    \cup (IF path1 # NoThread /\ ~rollout_fh.open
                                                          THEN {"rollout"} ELSE {})]
                    /\ sent' = [sent EXCEPT !.failed = {}]
    /\ UNCHANGED <<args, last_sent_turn, last_sent_thread, last_send_time, state_file,
                   now, sup_vars, aside>>

(***************************************************************************)
(* Processing of one collected event: lines 336-411.                       *)
(***************************************************************************)

\* A rebind test that forgets the idle threshold.
RebindDueAlways(tnow) == TRUE

\* A rebind test that waits for the bound thread to have had an event.
RebindDueSeen(tnow) ==
    /\ watched_last_event_at # 0
    /\ tnow - watched_last_event_at > Max0(args.auto_rebind_idle_secs)

\* Line 346: may the watcher leave the bound thread for another one?
RebindDue(tnow) ==
    \/ watched_last_event_at = 0
    \/ tnow - watched_last_event_at > Max0(args.auto_rebind_idle_secs)

\* A duplicate test with the thread comparison inverted.
IsDuplicateOtherThread(turn_id, thread_id) ==
    turn_id = last_sent_turn /\ thread_id # last_sent_thread

\* Line 368: the event is the last successfully sent (turn, thread).
IsDuplicate(turn_id, thread_id) ==
    turn_id = last_sent_turn /\ thread_id = last_sent_thread

\* A cooldown test that never holds an event back.
CooldownActiveNever(tnow) == FALSE

\* Line 381
CooldownActive(tnow) == tnow - last_send_time < Max0(args.cooldown_secs)

\* Gates without the per-pane pause sentinel.
FirstGateNoPanePause(tnow, pause_file, pane_pause_file, pane_active) ==
    IF pause_file THEN "skip: pause file present"
    ELSE IF args.require_pane_active /\ ~pane_active THEN "skip: pane inactive"
    ELSE IF CooldownActive(tnow) THEN "skip: cooldown"
    ELSE ""

\* Gates without the global pause sentinel.
FirstGateNoPause(tnow, pause_file, pane_pause_file, pane_active) ==
    IF pane_pause_file THEN "skip: pane pause file present"
    ELSE IF args.require_pane_active /\ ~pane_active THEN "skip: pane inactive"
    ELSE IF CooldownActive(tnow) THEN "skip: cooldown"
    ELSE ""

\* Gates that look at the cooldown first.
FirstGateCooldownFirst(tnow, pause_file, pane_pause_file, pane_active) ==
    IF CooldownActive(tnow) THEN "skip: cooldown"
    ELSE IF pause_file THEN "skip: pause file present"
    ELSE IF pane_pause_file THEN "skip: pane pause file present"
    ELSE IF args.require_pane_active /\ ~pane_active THEN "skip: pane inactive"
    ELSE ""

\* Lines 371-383: the first gate that stops the event, "" when none does.
FirstGate(tnow, pause_file, pane_pause_file, pane_active) ==
    IF pause_file THEN "skip: pause file present"
    ELSE IF pane_pause_file THEN "skip: pane pause file present"
    ELSE IF args.require_pane_active /\ ~pane_active THEN "skip: pane inactive"
    ELSE IF CooldownActive(tnow) THEN "skip: cooldown"
    ELSE ""

\* A detector that does not look at the completion flag.
DetectorNoFlag(ev, watched) ==
    IF ev.thread # watched THEN "other thread"
    ELSE IF IsDuplicate(ev.turn, ev.thread) THEN "duplicate"
    ELSE ""

\* Lines 364-369: the detector's verdict on an event, "" when it is a candidate.
Detector(ev, watched) ==
    IF ev.thread # watched THEN "other thread"
    ELSE IF ev.nfu # "false" THEN "needs follow up"
    ELSE IF IsDuplicate(ev.turn, ev.thread) THEN "duplicate"
    ELSE ""

\* The cooldown gate as the specification states it: this process's latest
\* successful send is less than the cooldown ago.
InCooldown(tnow) == sent.at # 0 /\ tnow - sent.at < Max0(args.cooldown_secs)

\* A watcher that takes every send for a successful one.
CommitAlways(ok, new, old) == new

\* Lines 389-396: what a send leaves in a variable, the new value when it
\* succeeded and the old one when it failed.
Commit(ok, new, old) == IF ok THEN new ELSE old

\* A rebind that keeps the rollout file of the thread it leaves.
TrackedAfterKept(rebind, path) == path

\* Line 357: a rebind unsets the tracked rollout file.
TrackedAfter(rebind, path) == IF rebind THEN NoThread ELSE path

ProcessEvent ==
    /\ events # <<>>
    /\ \E pause_file, pane_pause_file, pane_active \in BOOLEAN, tmux \in TmuxChoices :
        LET ev == Head(events)
            tnow == now
            \* --- lines 339-362 ---
            bind == auto_mode /\ watched_thread = NoThread
            same == auto_mode /\ ~bind /\ ev.thread = watched_thread
            rebind == auto_mode /\ ~bind /\ ~same /\ RebindDue(tnow)
            watched1 == IF bind \/ rebind THEN ev.thread ELSE watched_thread
            \* --- lines 364-383 ---
            verdict == Detector(ev, watched1)
            gate == IF verdict = "" THEN FirstGate(tnow, pause_file, pane_pause_file, pane_active)
                    ELSE ""
            send == verdict = "" /\ gate = ""
            \* --- line 388 ---
            ok == send /\ tmux_send(tmux).ok
            outcome == IF verdict # "" THEN verdict
                       ELSE IF gate # "" THEN gate
                       ELSE IF ok THEN "continue: sent"
                       ELSE "error: tmux send failed"
        IN  \* the sentinels and the pane are as they are whether the event gets
            \* to their gate or not; they are drawn for the events that pass the
            \* detector, and the global sentinel for a duplicate too
            /\ (verdict \notin {"", "duplicate"} => ~pause_file)
            /\ (verdict # "" => ~pane_pause_file)
            /\ (verdict # "" \/ ~args.require_pane_active => pane_active)
            /\ (~send => tmux = AllOk)
            /\ events' = Tail(events)
            /\ watched_thread' = watched1
            /\ watched_last_event_at' =
                  (IF bind \/ same \/ rebind THEN tnow ELSE watched_last_event_at)
            /\ rollout_fh' = (IF rebind THEN ClosedFh ELSE rollout_fh)
            /\ rollout_path' = TrackedAfter(rebind, rollout_path)
            /\ last_rollout_scan' = (IF rebind THEN 0 ELSE last_rollout_scan)
            /\ last_send_time' = Commit(ok, tnow, last_send_time)
            /\ last_sent_turn' = Commit(ok, ev.turn, last_sent_turn)
            /\ last_sent_thread' = Commit(ok, ev.thread, last_sent_thread)
            /\ state_file' = Commit(ok, write_state(state_file, ev.turn, ev.thread, watched1),
                                    state_file)
            /\ sent' = (IF ok
                        THEN [sent EXCEPT !.thread = ev.thread, !.turn = ev.turn,
                                          !.src = ev.src, !.at = tnow,
                                          !.by = @ \cup {<<ev.thread, ev.turn, ev.src>>}]
                        ELSE IF send
                        THEN [sent EXCEPT !.failed = @ \cup {<<ev.thread, ev.turn, ev.src>>}]
                        ELSE sent)
            /\ idle_since' = (IF ev.thread = watched1 THEN [at |-> tnow, startup |-> FALSE]
                              ELSE idle_since)
            /\ last' = [op |-> "process", ev |-> ev, outcome |-> outcome,
                        prev_outcome |-> last.outcome,
                        pre_watched |-> watched_thread, pre_sent |-> sent,
                        pre_idle |-> idle_since, tnow |-> tnow,
                        gates |-> [pause |-> pause_file, pane_pause |-> pane_pause_file,
                                   inactive |-> args.require_pane_active /\ ~pane_active,
                                   cooldown |-> InCooldown(tnow)],
                        calls |-> IF send THEN 1 ELSE 0,
                        wrote |-> ok,
                        fresh |-> {},
                        keys |-> (IF send THEN tmux_send(tmux).keys ELSE <<>>),
                        accepting |-> tmux.text1 /\ tmux.enter1,
                        logged |-> (IF bind THEN <<"watch: auto-selected">> ELSE <<>>)
                                   \o (IF rebind THEN <<"watch: auto-rebind">> ELSE <<>>)
                                   \o (IF verdict = "" THEN <<outcome>> ELSE <<>>)]
    /\ UNCHANGED <<args, codex_fh, codex_log, now, used, alive, sup_vars, aside>>

(***************************************************************************)
(* The watcher process is started again (by the supervisor or by hand)     *)
(* with the same options.                                                  *)
(***************************************************************************)
WatcherRestart ==
    /\ used.restarts < MaxRestarts
    /\ used' = [used EXCEPT !.restarts = @ + 1]
    \* what is not looked at is not drawn
    /\ \E recent \in (IF auto_mode THEN Threads \cup {NoThread} ELSE {NoThread}) :
        \E dir \in Looked(IF auto_mode THEN recent ELSE args.thread_id) :
            Startup(args, recent, dir)
    /\ sent' = [sent EXCEPT !.at = 0, !.failed = {},
                            !.loaded = <<state_file.last_sent_thread, state_file.last_sent_turn>>]
    /\ UNCHANGED <<state_file, codex_log, now, sup_vars, aside>>

(***************************************************************************)
(* The clock.                                                              *)
(***************************************************************************)
Tick ==
    /\ now < StartTime + MaxTicks * TickSecs
    /\ now' = now + TickSecs
    /\ last' = Step("env", <<>>)
    /\ UNCHANGED <<watcher_vars, codex_log, used, sup_vars, aside>>

Next ==
    \/ Poll
    \/ ProcessEvent
    \/ WatcherRestart
    \/ Tick

Spec == Init /\ [][Next]_vars

(***************************************************************************)
(* Supervisor invocations.  Each runs main -> cmd_start, cmd_restart or    *)
(* cmd_stop for one pane; several can be in progress at once, and a step   *)
(* of one is what it does between two looks at the process table or the    *)
(* files.  Processes exit, and are started by hand, in between.            *)
(***************************************************************************)
ThreadArgs == {NoThread, "A"}

\* What detect_thread_id_for_pane finds for the pane (lines 482-493).
Detections == {NoThread, "B"}

\* The panes the commands are given for; the other panes have hand-started
\* watchers only.
CmdPanes == {"%1"}

\* Lines 1511-1539, 846-859 and 1093-1099: main runs cleanup_stale_files and
\* the command parses its arguments.  given is the message of the command line
\* (for start, also the one typed into the editor), NoMsg when there is none;
\* file_ok tells whether the message file of line 555 exists.
Begin(i) ==
    /\ inv[i].pc = "idle"
    /\ \A j \in Slots : j < i => inv[j].pc # "idle"
    /\ sup_used.cmds < MaxCmds
    /\ \E cmd \in {"start", "restart", "stop"}, pane \in CmdPanes, thread_arg \in ThreadArgs,
          given \in MsgChoices \cup {NoMsg}, file_ok \in BOOLEAN :
        LET parsed == IF given = NoMsg THEN DefaultMsg ELSE given
            failed == cmd # "stop" /\ parsed.mode = "file" /\ ~file_ok
            aborted == cmd = "start" /\ given = NoMsg
            outcome == IF failed THEN "error: message file not found"
                       ELSE IF aborted THEN "start: no message provided, aborting"
                       ELSE ""
        IN  \* what is not looked at is not drawn
            /\ (cmd = "stop" => thread_arg = NoThread /\ given = NoMsg)
            /\ (cmd = "stop" \/ parsed.mode # "file" => file_ok)
            /\ inv' = [inv EXCEPT ![i] =
                  IF outcome # "" THEN IdleInv
                  ELSE [IdleInv EXCEPT
                          !.pc = (IF cmd = "start" THEN "check"
                                  ELSE IF cmd = "restart" THEN "prepare" ELSE "stop"),
                          !.cmd = cmd, !.pane = pane, !.thread_arg = thread_arg,
                          !.msg = given,
                          !.implicit = (cmd = "restart" /\ thread_arg = NoThread
                                            /\ given = NoMsg)]]
            /\ sup_last' = [SupStep("begin", i) EXCEPT !.pane = pane, !.outcome = outcome,
                                                       !.unlinked = CleanupUnlinked]
    /\ pid_file' = CleanPidFiles
    /\ meta' = CleanMeta
    /\ sentinels' = CleanSentinels
    /\ sup_used' = [sup_used EXCEPT !.cmds = @ + 1]
    /\ UNCHANGED <<proc, state_files, parked>>

\* The watcher of a pane when exactly one runs for it, NoProc otherwise: the
\* watcher a restart replaces is the one that runs for the pane from the moment
\* the restart reads the saved message to the moment it stops the pane's watchers.
OnlyWatcher(pane) ==
    IF Cardinality(watcher_pids_for_pane(pane)) = 1
    THEN proc[FirstRow(watcher_pids_for_pane(pane))]
    ELSE NoProc

\* Lines 1101-1115: restart settles the message and the thread to start with.
RestartPrepare(i) ==
    /\ inv[i].pc = "prepare"
    /\ \E detected \in Detections, file_ok \in BOOLEAN :
        LET me == inv[i]
            read == read_message_meta_for_key(meta[me.pane])
            msg0 == IF me.msg # NoMsg THEN me.msg
                    ELSE IF read # NoMsg THEN read
                    ELSE DefaultMsg
            msg1 == IF msg0.mode = "file" /\ ~file_ok
                    THEN [msg0 EXCEPT !.value = DEFAULT_MSG_FILE]
                    ELSE msg0
            running == thread_from_running_watcher_for_pane(me.pane)
            thread_arg == IF me.thread_arg # NoThread THEN me.thread_arg
                          ELSE IF detected # NoThread THEN detected
                          ELSE IF running # NoThread THEN running
                          ELSE thread_from_state_file_for_key(me.pane)
        IN  \* what is not looked at is not drawn
            /\ (me.thread_arg # NoThread => detected = NoThread)
            /\ (msg0.mode # "file" \/ me.msg # NoMsg => file_ok)
            /\ inv' = [inv EXCEPT ![i] =
                          [me EXCEPT !.pc = "stop", !.thread_arg = thread_arg, !.msg = msg1,
                                     !.old = OnlyWatcher(me.pane)]]
            /\ sup_last' = [SupStep("prepare", i) EXCEPT
                               !.pane = me.pane,
                               !.torn = /\ me.thread_arg = NoThread /\ detected = NoThread
                                        /\ running = NoThread
                                        /\ state_files[me.pane] = Torn]
    /\ UNCHANGED <<proc, pid_file, meta, state_files, sup_used, sentinels, parked>>

\* Lines 941-960: stop_pane_watchers, of cmd_stop (line 968) and cmd_restart (line 1117).
Stop(i) ==
    /\ inv[i].pc = "stop"
    /\ LET me == inv[i]
           pane_pids == watcher_pids_for_pane(me.pane)
           old == IF me.old = OnlyWatcher(me.pane) THEN me.old ELSE NoProc
           resumed == {p \in pane_pids : is_pid_stopped(p)}
       IN  /\ proc' = Kill(Kill(proc, resumed, "SIGCONT"), pane_pids, "SIGTERM")
           /\ pid_file' = [pid_file EXCEPT ![me.pane] = NoPid]
           /\ inv' = [inv EXCEPT ![i] =
                         IF me.cmd = "restart" THEN [me EXCEPT !.pc = "check", !.old = old]
                         ELSE IdleInv]
           /\ sup_last' = [SupStep("stop", i) EXCEPT
                              !.pane = me.pane, !.found = pane_pids, !.old = old,
                              !.was_stopped = {p \in pane_pids : proc[p].stopped},
                              !.signalled = resumed,
                              !.outcome = IF pane_pids = {} THEN "not running" ELSE "stopped"]
    /\ UNCHANGED <<meta, state_files, sup_used, sentinels, parked>>

\* Lines 865-867: start looks at the PID file.
StartCheck(i) ==
    /\ inv[i].pc = "check"
    /\ LET me == inv[i]
           live == is_running_pid_file(me.pane)
       IN  /\ inv' = [inv EXCEPT ![i] = IF live THEN Return(me) ELSE [me EXCEPT !.pc = "scan"]]
           /\ sup_last' = [SupStep("check", i) EXCEPT
                              !.pane = me.pane, !.live = live, !.old = me.old, !.all = me.all,
                              !.outcome = IF live THEN "already running" ELSE ""]
    /\ UNCHANGED <<proc, pid_file, meta, state_files, sup_used, sentinels, parked>>

\* A scan that adopts the first watcher it finds however many there are.
AdoptsAny(existing_pids) == existing_pids # {}

\* Line 871: exactly one watcher runs for the pane.
Adopts(existing_pids) == Cardinality(existing_pids) = 1

\* Lines 869-885: start looks for running watchers of the pane.
StartScan(i) ==
    /\ inv[i].pc = "scan"
    /\ LET me == inv[i]
           existing_pids == watcher_pids_for_pane(me.pane)
           adopt == existing_pids # {} /\ Adopts(existing_pids)
       IN  /\ pid_file' = (IF adopt THEN [pid_file EXCEPT ![me.pane] = FirstRow(existing_pids)]
                           ELSE pid_file)
           /\ inv' = [inv EXCEPT ![i] =
                         IF adopt THEN Return(me)
                         ELSE IF existing_pids # {} THEN IdleInv
                         ELSE [me EXCEPT !.pc = "spawn"]]
           /\ sup_last' = [SupStep("scan", i) EXCEPT
                              !.pane = me.pane, !.found = existing_pids, !.old = me.old,
                              !.all = me.all,
                              !.pid_written = (IF adopt THEN FirstRow(existing_pids) ELSE NoPid),
                              !.outcome = IF adopt THEN "already running"
                                          ELSE IF existing_pids # {}
                                              THEN "error: multiple watchers already running"
                                          ELSE ""]
    /\ UNCHANGED <<proc, meta, state_files, sup_used, sentinels, parked>>

\* Lines 887-902: start resolves the thread, saves the message meta, removes
\* the PID file and spawns the watcher.
StartSpawn(i) ==
    /\ inv[i].pc = "spawn"
    /\ \E detected \in Detections, pid \in FreePids :
        LET me == inv[i]
            thread_id == resolve_thread_id(me.thread_arg, detected)
            new == WatcherProc(me.pane, thread_id, me.msg, "supervisor")
        IN  \* what is not looked at is not drawn
            /\ (me.thread_arg # NoThread => detected = NoThread)
            /\ meta' = [meta EXCEPT ![me.pane] = write_message_meta(me.msg.mode, me.msg.value)]
            /\ pid_file' = [pid_file EXCEPT ![me.pane] = NoPid]
            /\ proc' = [proc EXCEPT ![pid] = new]
            /\ inv' = [inv EXCEPT ![i] = [me EXCEPT !.pc = "verify", !.child = pid]]
            /\ sup_last' = [SupStep("spawn", i) EXCEPT
                               !.pane = me.pane, !.child = pid, !.new = new, !.old = me.old,
                               !.implicit = me.implicit]
    /\ UNCHANGED <<state_files, sup_used, sentinels, parked>>

\* A start that writes the pid of its child whether or not the child has exited.
RegisteredAlways(running, child) == child

\* Lines 905-913: the PID file after the grace period; proc.poll() is None
\* tells that the child runs.
Registered(running, child) == IF running THEN child ELSE NoPid

\* Lines 904-923: after 0.2 s start registers the child, or reports that it exited.
StartVerify(i) ==
    /\ inv[i].pc = "verify"
    /\ LET me == inv[i]
           running == proc[me.child].kind = "watcher"
       IN  /\ pid_file' = [pid_file EXCEPT ![me.pane] = Registered(running, me.child)]
           /\ proc' = (IF running THEN proc ELSE [proc EXCEPT ![me.child] = NoProc])
           /\ inv' = [inv EXCEPT ![i] = IF running THEN Return(me) ELSE IdleInv]
           /\ sup_last' = [SupStep("verify", i) EXCEPT
                              !.pane = me.pane, !.child = me.child, !.old = me.old,
                              !.all = me.all,
                              !.chosen = [thread |-> me.thread_arg, msg |-> me.msg],
                              !.pid_written = Registered(running, me.child),
                              !.outcome = IF running THEN "started"
                                          ELSE "failed: watcher exited immediately"]
    /\ UNCHANGED <<meta, state_files, sup_used, sentinels, parked>>

\* A process exits: a watcher on SIGTERM, or on its own; an
\* unrelated process at any time.  A child its parent still waits for stays
\* as a zombie until the parent looks (line 905).
ProcExit(p) ==
    /\ ~proc[p].stopped
    /\ \/ proc[p].kind = "watcher" /\ proc[p].term /\ UNCHANGED sup_used
       \/ /\ proc[p].kind = "watcher" /\ ~proc[p].term
          /\ sup_used.env < MaxEnv
          /\ sup_used' = [sup_used EXCEPT !.env = @ + 1]
       \/ proc[p].kind = "other" /\ UNCHANGED sup_used
    /\ proc' = [proc EXCEPT ![p] =
                   IF \E i \in Slots : inv[i].pc = "verify" /\ inv[i].child = p
                   THEN Zombie ELSE NoProc]
    /\ sup_last' = SupStep("exit", 0)
    /\ UNCHANGED <<pid_file, meta, state_files, inv, sentinels, parked>>

HandMsg == [mode |-> "inline", value |-> <<"continue">>]

\* Somebody starts a watcher by hand, without the supervisor.
ManualStart ==
    /\ sup_used.env < MaxEnv
    /\ sup_used' = [sup_used EXCEPT !.env = @ + 1]
    /\ \E pid \in FreePids, pane \in Panes :
        proc' = [proc EXCEPT ![pid] = WatcherProc(pane, "auto", HandMsg, "hand")]
    /\ sup_last' = SupStep("manual", 0)
    /\ UNCHANGED <<pid_file, meta, state_files, inv, sentinels, parked>>

\* An unrelated process gets a free pid.
PidReuse ==
    /\ sup_used.env < MaxEnv
    /\ sup_used' = [sup_used EXCEPT !.env = @ + 1]
    /\ \E pid \in FreePids : proc' = [proc EXCEPT ![pid] = OtherProc]
    /\ sup_last' = SupStep("other", 0)
    /\ UNCHANGED <<pid_file, meta, state_files, inv, sentinels, parked>>

\* A running watcher finds no pause sentinel, sends and begins to save its
\* state (logwatch lines 371-376, 388-396 and 182-184): write_text opens the
\* state file for writing, which empties it.
WatcherSaves(p) ==
    /\ proc[p].kind = "watcher" /\ ~proc[p].stopped
    /\ GlobalPause \notin sentinels /\ PanePause(proc[p].pane) \notin sentinels
    /\ sup_used.env < MaxEnv
    /\ sup_used' = [sup_used EXCEPT !.env = @ + 1]
    /\ state_files[proc[p].pane] # Torn
    /\ state_files' = [state_files EXCEPT ![proc[p].pane] = Torn]
    /\ sup_last' = SupStep("save", 0)
    /\ UNCHANGED <<proc, pid_file, meta, inv, sentinels, parked>>

\* The watcher writes the JSON text and closes the file (logwatch line 184):
\* the thread_id saved is its bound thread.
WatcherSaved(p) ==
    /\ proc[p].kind = "watcher" /\ ~proc[p].stopped
    /\ state_files[proc[p].pane] = Torn
    /\ \E t \in Threads :
        /\ (proc[p].thread # "auto" => t = proc[p].thread)
        /\ state_files' = [state_files EXCEPT ![proc[p].pane] = t]
    /\ sup_last' = SupStep("saved", 0)
    /\ UNCHANGED <<proc, pid_file, meta, inv, sentinels, sup_used, parked>>

\* Somebody creates or removes a pause sentinel.
SentinelChange ==
    /\ sup_used.env < MaxEnv
    /\ sup_used' = [sup_used EXCEPT !.env = @ + 1]
    /\ \E f \in SentinelFiles :
        sentinels' = (IF f \in sentinels THEN sentinels \ {f} ELSE sentinels \cup {f})
    /\ sup_last' = SupStep("sentinel", 0)
    /\ UNCHANGED <<proc, pid_file, meta, state_files, inv, parked>>

\* The target of a command that takes an optional pane: a pane, "" for none.
Targets == CmdPanes \cup {""}

\* Lines 997-1005 and 1017-1023: the watchers a pause or resume looks at.
Addressed(target) == IF target # "" THEN watcher_pids_for_pane(target) ELSE watcher_rows

\* Lines 995-1034: cmd_pause.
Pause ==
    /\ sup_used.cmds < MaxCmds
    /\ sup_used' = [sup_used EXCEPT !.cmds = @ + 1]
    /\ \E target \in Targets :
        LET pids == Addressed(target)
            already == {p \in pids : is_pid_stopped(p)}
        IN  /\ proc' = Kill(proc, pids \ already, "SIGSTOP")
            /\ sup_last' = [SupStep("pause", 0) EXCEPT
                               !.pane = target, !.found = pids,
                               !.was_stopped = {p \in pids : proc[p].stopped},
                               !.signalled = pids \ already,
                               !.reports = {<<p, "already paused">> : p \in already}
                                           \cup {<<p, "paused">> : p \in pids \ already},
                               !.outcome = IF pids = {} THEN "not running" ELSE ""]
    /\ UNCHANGED <<pid_file, meta, state_files, inv, sentinels, parked>>

\* Lines 1037-1075: cmd_resume.
Resume ==
    /\ sup_used.cmds < MaxCmds
    /\ sup_used' = [sup_used EXCEPT !.cmds = @ + 1]
    /\ \E target \in Targets :
        LET pids == Addressed(target)
            paused == {p \in pids : is_pid_stopped(p)}
        IN  /\ proc' = Kill(proc, paused, "SIGCONT")
            /\ sup_last' = [SupStep("resume", 0) EXCEPT
                               !.pane = target, !.found = pids,
                               !.was_stopped = {p \in pids : proc[p].stopped},
                               !.signalled = paused,
                               !.reports = {<<p, "resumed">> : p \in paused}
                                           \cup (IF target # ""
                                                 THEN {<<p, "not paused">> : p \in pids \ paused}
                                                 ELSE {}),
                               !.outcome = IF target # "" /\ pids = {} THEN "not running"
                                           ELSE IF target = "" /\ paused = {}
                                               THEN "no paused watchers"
                                           ELSE ""]
    /\ UNCHANGED <<pid_file, meta, state_files, inv, sentinels, parked>>

\* Lines 1522-1523, 926-938 and 971-992: stop without a target, after the
\* cleanup of main: stop_pid_file for every PID file, then SIGTERM to every
\* watcher the process listing shows.
StopAll ==
    /\ sup_used.cmds < MaxCmds
    /\ sup_used' = [sup_used EXCEPT !.cmds = @ + 1]
    /\ LET named == {CleanPidFiles[k] : k \in Panes} \ {NoPid}
           resumed == {p \in named : is_pid_stopped(p)}
           table == Kill(Kill(proc, resumed, "SIGCONT"), named, "SIGTERM")
           rows == watcher_rows
       IN  /\ proc' = Kill(table, rows, "SIGTERM")
           /\ sup_last' = [SupStep("stop_all", 0) EXCEPT
                              !.found = named \cup rows,
                              !.was_stopped = {p \in named \cup rows : proc[p].stopped},
                              !.signalled = resumed,
                              !.unlinked = CleanupUnlinked,
                              !.outcome = IF named \cup rows = {} THEN "not running"
                                          ELSE "stopped"]
    /\ pid_file' = [k \in Panes |-> NoPid]
    /\ meta' = CleanMeta
    /\ sentinels' = CleanSentinels
    /\ UNCHANGED <<state_files, inv, parked>>

\* The health key status finds in a state file.
HealthChoices == {"", "ok", "degraded"}

\* Lines 1434-1464 and 1351-1377: cmd_status; health[k] is the health key of
\* the state file of pane k, "" when the file has none or cannot be read.
Status ==
    /\ sup_used.cmds < MaxCmds
    /\ sup_used' = [sup_used EXCEPT !.cmds = @ + 1]
    /\ \E target \in Targets, health \in [Panes -> HealthChoices] :
        LET rows == Addressed(target)
        IN  \* what is not looked at is not drawn
            /\ \A k \in Panes :
                  (~is_thread_id(state_files[k]) \/ k \notin {proc[p].pane : p \in rows})
                      => health[k] = ""
            /\ sup_last' = [SupStep("status", 0) EXCEPT
                               !.pane = target, !.found = rows, !.health = health,
                               !.was_stopped = {p \in rows : proc[p].stopped},
                               !.torn = (\E p \in rows : state_files[proc[p].pane] = Torn),
                               !.reports = {<<p, compute_state(is_pid_stopped(p),
                                                               health[proc[p].pane])>> :
                                               p \in rows},
                               !.outcome = IF rows = {} THEN "(none)" ELSE ""]
    /\ UNCHANGED <<proc, pid_file, meta, state_files, inv, sentinels, parked>>

NextSup ==
    \/ Pause
    \/ Resume
    \/ StopAll
    \/ Status
    \/ \E i \in Slots :
        \/ Begin(i)
        \/ RestartPrepare(i)
        \/ Stop(i)
        \/ StartCheck(i)
        \/ StartScan(i)
        \/ StartSpawn(i)
        \/ StartVerify(i)
    \/ \E p \in Pids : ProcExit(p) \/ WatcherSaves(p) \/ WatcherSaved(p)
    \/ SentinelChange
    \/ ManualStart
    \/ PidReuse

\* The watcher of the first specification stands still, as one started with an
\* explicit thread.
InitSup ==
    /\ InitWatcher /\ ~auto_mode /\ args.cooldown_secs > 0
    /\ SupEmpty
    /\ pid_file \in StalePidFiles
    /\ TailIdle /\ TmuxIdle /\ CallIdle

SpecSup == InitSup /\ [][NextSup]_vars

(***************************************************************************)
(* restart-all: the loop of cmd_restart_all over the known keys, each pane *)
(* that tmux still shows going through cmd_restart, that is through the    *)
(* steps RestartPrepare, Stop, StartCheck, StartScan, StartSpawn and       *)
(* StartVerify above.                                                      *)
(***************************************************************************)

\* sorted(known), line 1208: the keys in the order of their strings.
KeyOrder == <<"%1", "%2">>

sorted(keys) == SelectSeq(KeyOrder, LAMBDA k : k \in keys)

\* What run_tmux("display-message", "-p", "-t", pane, "#{pane_id}") meets
\* (lines 141-161 and 1215): tmux prints the pane id; tmux finds no such pane;
\* or no tmux command can be run or reach its server though the pane is
\* there.  run_tmux returns None for the last two.
TmuxLooks == {"pane", "no pane", "no tmux"}

\* Lines 1522-1523 and 1202-1206: main runs cleanup_stale_files, restart-all
\* collects the known keys.
AllBegin(i) ==
    /\ inv[i].pc = "idle"
    /\ \A j \in Slots : j < i => inv[j].pc # "idle"
    /\ sup_used.cmds < MaxCmds
    /\ LET known == collect_known_keys
       IN  /\ inv' = [inv EXCEPT ![i] =
                         IF known = {} THEN IdleInv
                         ELSE [IdleInv EXCEPT !.pc = "all", !.cmd = "restart", !.all = TRUE,
                                              !.todo = sorted(known)]]
           /\ sup_last' = [SupStep("all_begin", i) EXCEPT
                              !.all = TRUE, !.unlinked = CleanupUnlinked,
                              !.outcome = IF known = {} THEN "no known watchers to restart"
                                          ELSE ""]
    /\ pid_file' = CleanPidFiles
    /\ meta' = CleanMeta
    /\ sentinels' = CleanSentinels
    /\ sup_used' = [sup_used EXCEPT !.cmds = @ + 1]
    /\ UNCHANGED <<proc, state_files, parked>>

\* Lines 1208-1236: one turn of the loop, up to the call of cmd_restart, whose
\* lines 1093-1099 find no thread and no message on its command line.
AllStep(i) ==
    /\ inv[i].pc = "all"
    /\ LET me == inv[i]
       IN  IF me.todo = <<>>
           THEN /\ inv' = [inv EXCEPT ![i] = IdleInv]
                /\ sup_last' = [SupStep("all_end", i) EXCEPT !.all = TRUE]
                /\ UNCHANGED <<proc, pid_file>>
           ELSE \E look \in TmuxLooks :
                LET pane == Head(me.todo)
                    pids == watcher_pids_for_pane(pane)
                    resumed == {p \in pids : is_pid_stopped(p)}
                IN  IF look = "pane"
                    THEN /\ inv' = [inv EXCEPT ![i] =
                                      [me EXCEPT !.pc = "prepare", !.pane = pane,
                                                 !.thread_arg = NoThread, !.msg = NoMsg,
                                                 !.implicit = TRUE, !.todo = Tail(me.todo)]]
                         /\ sup_last' = [SupStep("all_restart", i) EXCEPT
                                            !.all = TRUE, !.pane = pane]
                         /\ UNCHANGED <<proc, pid_file>>
                    ELSE /\ proc' = Kill(Kill(proc, resumed, "SIGCONT"), pids, "SIGTERM")
                         /\ pid_file' = [pid_file EXCEPT ![pane] = NoPid]
                         /\ inv' = [inv EXCEPT ![i] = [me EXCEPT !.todo = Tail(me.todo)]]
                         /\ sup_last' = [SupStep("all_orphan", i) EXCEPT
                                            !.all = TRUE, !.pane = pane, !.found = pids,
                                            !.exists = (look # "no pane"),
                                            !.was_stopped = {p \in pids : proc[p].stopped},
                                            !.signalled = resumed,
                                            !.outcome = IF pids # {}
                                                        THEN "killed: orphaned watcher(s)"
                                                        ELSE ""]
    /\ UNCHANGED <<meta, state_files, sup_used, sentinels, parked>>

\* restart-all is looked at on its own: one invocation at a time.
AllSlots == {1}

NextAll ==
    \/ \E i \in AllSlots :
        \/ AllBegin(i)
        \/ AllStep(i)
        \/ RestartPrepare(i)
        \/ Stop(i)
        \/ StartCheck(i)
        \/ StartScan(i)
        \/ StartSpawn(i)
        \/ StartVerify(i)
    \/ \E p \in Pids : ProcExit(p)
    \/ ManualStart

\* The watchers a supervisor has started before: one for pane %1, whose message
\* it has saved, and possibly one for pane %2; or none, and a state file that a
\* watcher of pane %2 has left.
AllTables ==
    {[p \in Pids |-> IF p = 1 THEN WatcherProc("%1", "A", [mode |-> "inline", value |-> <<"go">>],
                                               "supervisor")
                     ELSE IF p = 2 /\ two THEN WatcherProc("%2", "auto", HandMsg, "supervisor")
                     ELSE NoProc] : two \in BOOLEAN}

InitAll ==
    /\ InitWatcher /\ ~auto_mode /\ args.cooldown_secs > 0
    /\ TailIdle /\ TmuxIdle /\ CallIdle
    /\ proc \in AllTables
    /\ pid_file = [k \in Panes |-> IF k = "%1" THEN 1
                                   ELSE IF proc[2].kind = "watcher" THEN 2 ELSE NoPid]
    /\ meta = [k \in Panes |-> IF k = "%1" THEN write_message_meta("inline", <<"go">>)
                               ELSE IF proc[2].kind = "watcher"
                                   THEN write_message_meta("inline", <<"continue">>)
                               ELSE NoMeta]
    /\ state_files \in {[k \in Panes |-> IF k = "%2" THEN t ELSE NoThread] :
                            t \in {NoThread, "B"}}
    /\ sentinels = {}
    /\ inv = [i \in Slots |-> IdleInv]
    /\ sup_last = SupStep("", 0)
    /\ sup_used = [cmds |-> 0, env |-> 0]

SpecAll == InitAll /\ [][NextAll]_vars

(***************************************************************************)
(* One tail of the watcher with the content of its file: the block of      *)
(* lines 275-294 for codex-tui.log, which lines 314-333 repeat for the     *)
(* rollout file.  Offsets and sizes are in lines.  The writer appends to   *)
(* the file at the path and makes it anew when it is not there; the file   *)
(* is truncated in place, or moved away as a log rotation does.  An inode  *)
(* that was moved away gets no more lines.                                 *)
(***************************************************************************)
MaxAppends == 3
\* lines the writer appends to the tailed file over a behaviour
MaxCuts == 1
\* truncations and rotations of the tailed file over a behaviour

\* A line that makes an event (EVENT_RE matches, parse_rollout_event returns a
\* turn) and one that makes none.
TailLines == {"completion", "other"}

\* The watcher process is suspended (SIGSTOP): it runs no poll cycle.
Suspended == \E p \in Pids : proc[p].kind = "watcher" /\ proc[p].stopped

\* What stands still while the tail is looked at.
beside_tail == <<whole_watcher, sup_vars, tmux_call, call>>

\* Lines 277-279 and 316-318: the handle the cycle reads with, opened at the end
\* of the file at the path when there was none.
TailOpen(h, f) ==
    IF h.open THEN h
    ELSE [open |-> TRUE, pos |-> Len(f.lines), ino |-> f.ino, gen |-> f.gen]

\* Lines 280-286 and 319-325: the numbers of the lines readline() returns, those
\* of the handle's inode from its offset on.
TailRead(h, f) ==
    IF h.ino = f.ino /\ h.pos < Len(f.lines) THEN (h.pos + 1)..Len(f.lines) ELSE {}

\* Lines 287-294 and 326-333: the handle after the cycle; tell() is compared
\* with the size of the file at the path.
TailClose(h, f) ==
    LET tell == IF TailRead(h, f) # {} THEN Len(f.lines) ELSE h.pos
    IN  IF tell > Len(f.lines) THEN NoFh ELSE [h EXCEPT !.pos = tell]

\* One poll cycle of the tail; nothing is done while the file is not there
\* (lines 276 and 315).
TailPoll ==
    /\ fh' = (IF file.exists THEN TailClose(TailOpen(fh, file), file) ELSE fh)
    /\ emitted' = (IF file.exists
                   THEN emitted \cup {<<file.gen, i>> : i \in
                            {j \in TailRead(TailOpen(fh, file), file) :
                                file.lines[j] = "completion"}}
                   ELSE emitted)
    /\ tail_last' = [tail_last EXCEPT !.op = "poll"]
    /\ UNCHANGED <<file, beside_tail>>

\* The writer appends a line to the file at the path; slept are the lines
\* appended while the watcher is suspended with its handle open.
TailAppend ==
    /\ tail_last.appends < MaxAppends
    /\ \E l \in TailLines :
          file' = (IF file.exists THEN [file EXCEPT !.lines = Append(@, l)]
                   ELSE [file EXCEPT !.exists = TRUE, !.ino = @ + 1, !.lines = <<l>>])
    /\ tail_last' = [tail_last EXCEPT
                        !.op = "append", !.appends = @ + 1,
                        !.slept = IF Suspended /\ fh.open THEN @ \cup {<<file'.gen, Len(file'.lines)>>}
                                  ELSE @]
    /\ UNCHANGED <<fh, emitted, beside_tail>>

\* The file is truncated in place.
TailTruncate ==
    /\ tail_last.cuts < MaxCuts
    /\ file.exists /\ file.lines # <<>>
    /\ file' = [file EXCEPT !.lines = <<>>, !.gen = @ + 1]
    /\ tail_last' = [tail_last EXCEPT !.op = "truncate", !.cuts = @ + 1, !.held = fh.open]
    /\ UNCHANGED <<fh, emitted, beside_tail>>

\* The file is moved away; the writer's next line makes a new one.
TailRotate ==
    /\ tail_last.cuts < MaxCuts
    /\ file.exists
    /\ file' = [file EXCEPT !.exists = FALSE, !.lines = <<>>, !.gen = @ + 1]
    /\ tail_last' = [tail_last EXCEPT !.op = "rotate", !.cuts = @ + 1, !.held = fh.open]
    /\ UNCHANGED <<fh, emitted, beside_tail>>

NextTail ==
    \/ TailPoll
    \/ TailAppend
    \/ TailTruncate
    \/ TailRotate

\* The watcher, the supervisor and tmux_send stand still.
InitTail ==
    /\ InitWatcher /\ ~auto_mode /\ args.cooldown_secs > 0
    /\ SupIdle
    /\ TailIdle /\ TmuxIdle /\ CallIdle

SpecTail == InitTail /\ [][NextTail]_vars

(***************************************************************************)
(* The tail of a watcher that pause suspends and resume wakes: the process *)
(* runs its poll cycles only while it is not stopped; the writer of the    *)
(* file goes on.                                                           *)
(***************************************************************************)
\* Lines 271-294 in a process that SIGSTOP can hold.
WatcherPoll ==
    /\ ~Suspended
    /\ TailPoll

NextPause ==
    \/ Pause
    \/ Resume
    \/ WatcherPoll
    \/ TailAppend
    \/ TailTruncate
    \/ TailRotate

\* One watcher runs for pane %1, started by the supervisor; its tail is before
\* its first poll.
InitPause ==
    /\ InitWatcher /\ ~auto_mode /\ args.cooldown_secs > 0
    /\ TailIdle /\ TmuxIdle /\ CallIdle
    /\ proc = [p \in Pids |-> IF p = 1 THEN WatcherProc("%1", "A", HandMsg, "supervisor")
                               ELSE NoProc]
    /\ pid_file = [k \in Panes |-> IF k = "%1" THEN 1 ELSE NoPid]
    /\ meta = [k \in Panes |-> NoMeta]
    /\ state_files = [k \in Panes |-> NoThread]
    /\ sentinels = {}
    /\ inv = [i \in Slots |-> IdleInv]
    /\ sup_last = SupStep("", 0)
    /\ sup_used = [cmds |-> 0, env |-> 0]

SpecPause == InitPause /\ [][NextPause]_vars

(***************************************************************************)
(* One call of tmux_send, for every way tmux can answer its calls.         *)
(***************************************************************************)
\* Every answer of tmux to the calls of one tmux_send.
TmuxAnswers ==
    [mode1 : BOOLEAN, text1 : BOOLEAN, enter1 : BOOLEAN,
     mode2 : BOOLEAN, text2 : BOOLEAN, enter2 : BOOLEAN]

\* Line 388: the call is made and returns.
TmuxSend ==
    /\ ~tmux_call.made
    /\ tmux_call' = [tmux_call EXCEPT !.made = TRUE, !.result = tmux_send(tmux_call.answers)]
    /\ UNCHANGED <<whole_watcher, sup_vars, tail_vars, call>>

NextTmux == TmuxSend

\* The watcher, the supervisor and the tail stand still.
InitTmux ==
    /\ InitWatcher /\ ~auto_mode /\ args.cooldown_secs > 0
    /\ SupIdle
    /\ TailIdle /\ CallIdle
    /\ tmux_call \in [answers : TmuxAnswers, made : {FALSE}, result : {NoCall}]

SpecTmux == InitTmux /\ [][NextTmux]_vars

(***************************************************************************)
(* One call of resolve_thread_id, for every requested thread and every     *)
(* outcome of the three detection strategies.                              *)
(***************************************************************************)
\* The thread argument of start: none, "auto", a thread id in small letters or
\* in capitals, a string that is no thread id, and "auto" in capitals.
Requests == {"", "auto", "A", UpperA, "not-an-id", "AUTO"}

\* What a detection strategy returns: None or a thread id, which lines 292,
\* 298, 337 and 476 have put in small letters.
Found == {NoThread} \cup Threads

\* Lines 496-514: the call is made and returns or exits; run are the detection
\* strategies that were run.
ResolveThread ==
    /\ call.fn = "resolve_thread_id" /\ ~call.made
    /\ LET detecting == ~(call.requested # "" /\ call.requested # "auto")
           detected == IF detecting
                       THEN detect_thread_id_for_pane(call.fd, call.snapshot, call.tty)
                       ELSE NoThread
       IN  call' = [call EXCEPT
                       !.made = TRUE,
                       !.run = IF detecting
                               THEN DetectionsRun(call.fd, call.snapshot, call.tty)
                               ELSE <<>>,
                       !.result = resolve_thread_id(call.requested, detected)]
    /\ UNCHANGED <<whole_watcher, sup_vars, tail_vars, tmux_call>>

NextThread == ResolveThread

\* The watcher, the supervisor, the tail and tmux_send stand still.
InitThread ==
    /\ InitWatcher /\ ~auto_mode /\ args.cooldown_secs > 0
    /\ SupIdle
    /\ TailIdle /\ TmuxIdle
    /\ call \in [fn : {"resolve_thread_id"}, made : {FALSE}, requested : Requests,
                  fd : Found, snapshot : Found, tty : Found, run : {<<>>},
                  result : {""}]

SpecThread == InitThread /\ [][NextThread]_vars

(***************************************************************************)
(* One call of resolve_pane_target, for every target form and every        *)
(* listing of panes tmux can print.                                        *)
(***************************************************************************)
MaxRows == 3

\* The pane ids of a listing, by line: tmux gives every pane its own.
RowPanes == <<"%1", "%2", "%3", "%4">>

\* Line 94
is_pane_id(s) == \E i \in DOMAIN RowPanes : s = RowPanes[i]

\* The targets of a command: a pane id, a window index, session:window, and a
\* string of no such form; session is "" for a bare window index.
WindowTargets ==
    {[form |-> "pane", pane |-> "%2", session |-> "", window |-> ""],
     [form |-> "window", pane |-> "", session |-> "", window |-> "1"],
     [form |-> "session:window", pane |-> "", session |-> "s2", window |-> "1"],
     [form |-> "other", pane |-> "", session |-> "", window |-> ""]}

\* A line of `tmux list-panes -a` in the format of line 178, without its pane id.
ListedRows ==
    [session : {"s1", "s2"}, window : {"1", "2"}, pane_active : BOOLEAN,
     window_active : BOOLEAN]

\* What tmux can print: a window is active or not for all of its panes, and
\* at most one pane of a window is the active one.
Printable(l) ==
    \A i, j \in DOMAIN l :
        (l[i].session = l[j].session /\ l[i].window = l[j].window)
            => /\ l[i].window_active = l[j].window_active
               /\ (i # j => ~(l[i].pane_active /\ l[j].pane_active))

WithPanes(l) ==
    [i \in DOMAIN l |->
        [session |-> l[i].session, window |-> l[i].window, pane |-> RowPanes[i],
         pane_active |-> l[i].pane_active, window_active |-> l[i].window_active]]

\* run_tmux returns None: no listing.
NoListing == <<[session |-> "", window |-> "", pane |-> "none", pane_active |-> FALSE,
                window_active |-> FALSE]>>

Listed == {WithPanes(l) : l \in {x \in SeqUpTo(ListedRows, MaxRows) : Printable(x)}}
              \cup {NoListing}

\* None as a pane.
NoPane == ""

\* A resolution that takes the first session listed when several have the window.
PickSessionFirst(rows, requested_session) ==
    LET session_seen == {rows[i].session : i \in DOMAIN rows}
    IN  IF requested_session = "" /\ Cardinality(session_seen) > 1
        THEN [ok |-> TRUE, session |-> rows[1].session]
        ELSE [ok |-> TRUE, session |-> requested_session]

\* Lines 215-241: the session whose window is taken; ok is FALSE when the
\* window is ambiguous across sessions.
PickSession(rows, requested_session) ==
    LET session_seen == {rows[i].session : i \in DOMAIN rows}
        active == SelectSeq(rows, LAMBDA r : r.window_active)
        active_session == IF active = <<>> THEN "" ELSE active[1].session
        active_conflict == \E i \in DOMAIN active : active[i].session # active_session
    IN  IF requested_session = "" /\ Cardinality(session_seen) > 1
        THEN IF active_session # "" /\ ~active_conflict
             THEN [ok |-> TRUE, session |-> active_session]
             ELSE [ok |-> FALSE, session |-> ""]
        ELSE [ok |-> TRUE, session |-> requested_session]

\* Lines 164-259; target is a window index or session:window.
resolve_pane_from_window_target(target, listing) ==
    IF listing = NoListing THEN NoPane
    ELSE LET rows == SelectSeq(listing,
                         LAMBDA r : /\ r.pane # "" /\ r.window = target.window
                                    /\ (target.session # "" => r.session = target.session))
         IN  IF rows = <<>> THEN NoPane
             ELSE LET picked == PickSession(rows, target.session)
                      of_session == SelectSeq(rows, LAMBDA r : picked.session # ""
                                                                => r.session = picked.session)
                      active == SelectSeq(of_session, LAMBDA r : r.pane_active)
                      fallback == of_session[1].pane
                      selected == IF active # <<>> THEN active[1].pane ELSE fallback
                  IN  IF ~picked.ok THEN NoPane
                      ELSE IF is_pane_id(selected) THEN selected ELSE NoPane

\* Lines 262-279: the pane id of a target, ExitError for sys.exit(1).
resolve_pane_target(target, listing) ==
    IF target.form = "pane" THEN target.pane
    ELSE IF target.form \in {"window", "session:window"}
    THEN LET pane == resolve_pane_from_window_target(target, listing)
         IN  IF pane # NoPane /\ is_pane_id(pane) THEN pane ELSE ExitError
    ELSE ExitError

\* Line 846: the call is made and returns or exits.
ResolveTarget ==
    /\ call.fn = "resolve_pane_target" /\ ~call.made
    /\ call' = [call EXCEPT !.made = TRUE,
                            !.result = resolve_pane_target(call.target, call.listing)]
    /\ UNCHANGED <<whole_watcher, sup_vars, tail_vars, tmux_call>>

NextWindow == ResolveTarget

\* The watcher, the supervisor, the tail and tmux_send stand still.
InitWindow ==
    /\ InitWatcher /\ ~auto_mode /\ args.cooldown_secs > 0
    /\ SupIdle
    /\ TailIdle /\ TmuxIdle
    /\ call \in [fn : {"resolve_pane_target"}, made : {FALSE}, target : WindowTargets,
                  listing : Listed, result : {""}]
    \* what is not looked at is not drawn
    /\ call.target.form \in {"pane", "other"} => call.listing = <<>>

SpecWindow == InitWindow /\ [][NextWindow]_vars

(***************************************************************************)
(* The message meta file of a pane, written and read back.                 *)
(***************************************************************************)
MaxValue == 3

\* The tokens of a message value: text, the newline and the two prefixes the
\* reader looks for, which are text like any other to the writer.
ValueTokens == {"go", "\n", "mode=", "value="}

\* Lines 899 and 1086: write_message_meta(key, msg_mode, msg_value).
MetaWrite ==
    /\ call.fn = "message_meta" /\ ~call.made /\ ~call.file.exists
    /\ call' = [call EXCEPT !.file = write_message_meta(call.mode, call.value)]
    /\ UNCHANGED <<whole_watcher, sup_vars, tail_vars, tmux_call>>

\* Line 1102: meta = read_message_meta_for_key(key).
MetaRead ==
    /\ call.fn = "message_meta" /\ ~call.made /\ call.file.exists
    /\ call' = [call EXCEPT !.made = TRUE, !.result = read_message_meta_for_key(call.file)]
    /\ UNCHANGED <<whole_watcher, sup_vars, tail_vars, tmux_call>>

NextMeta == MetaWrite \/ MetaRead

\* The watcher, the supervisor, the tail and tmux_send stand still.
InitMeta ==
    /\ InitWatcher /\ ~auto_mode /\ args.cooldown_secs > 0
    /\ SupIdle
    /\ TailIdle /\ TmuxIdle
    /\ call \in [fn : {"message_meta"}, made : {FALSE}, mode : {"inline", "file"},
                  value : SeqUpTo(ValueTokens, MaxValue), file : {NoMeta}, result : {NoMsg}]

SpecMeta == InitMeta /\ [][NextMeta]_vars

(***************************************************************************)
(* Properties of the supervisor, checked under SpecSup.  They read the     *)
(* record `sup_last` of the latest step and the process table.             *)
(***************************************************************************)
\* The running watchers of a pane that have not been told to terminate.
LiveWatchers(pane) ==
    {p \in Pids : proc[p].kind = "watcher" /\ proc[p].pane = pane /\ ~proc[p].term}

\* The running watchers of a pane, as a process listing shows them.
ListedWatchers(pane) == {p \in Pids : proc[p].kind = "watcher" /\ proc[p].pane = pane}

\* The pane's PID file names a pid that some process has.
PidFileLive(pane) == pid_file[pane] # NoPid /\ proc[pid_file[pane]].kind # "none"

\* The invocation of the latest step is over and has spawned nothing.
EndedWithoutSpawn ==
    /\ inv[sup_last.i] = IdleInv
    /\ sup_last.new = NoProc

\* C4: no pane ever has more than one live watcher; here, more than one that
\* the supervisor itself started and has not told to terminate.
C4_OneWatcherPerPane ==
    \A pane \in Panes :
        Cardinality({p \in LiveWatchers(pane) : proc[p].by = "supervisor"}) <= 1

\* C5: start spawns no watcher when one runs already: with a live PID file it
\* reports "already running"; with exactly one watcher found it reports "already
\* running" and writes that watcher's pid into the PID file; with more than one
\* found it fails with an error.
C5_StartRefusesWhenRunning ==
    /\ (sup_last.op = "check" /\ PidFileLive(sup_last.pane))
          => (sup_last.outcome = "already running" /\ EndedWithoutSpawn)
    /\ (sup_last.op = "scan" /\ Cardinality(ListedWatchers(sup_last.pane)) = 1)
          => /\ sup_last.outcome = "already running"
             /\ pid_file[sup_last.pane] \in ListedWatchers(sup_last.pane)
             /\ EndedWithoutSpawn
    /\ (sup_last.op = "scan" /\ Cardinality(ListedWatchers(sup_last.pane)) > 1)
          => /\ sup_last.outcome = "error: multiple watchers already running"
             /\ EndedWithoutSpawn

C5_Witness ==
    /\ sup_last.op = "scan"
    /\ Cardinality(ListedWatchers(sup_last.pane)) = 1
    /\ sup_last.outcome = "already running"
    /\ pid_file[sup_last.pane] \in ListedWatchers(sup_last.pane)

\* C6: the watcher that a restart without thread and message arguments spawns
\* runs with the message (mode and value) of the watcher it replaces; here, of a
\* replaced watcher that the supervisor itself started.
C6_RestartKeepsMessage ==
    (sup_last.op = "spawn" /\ sup_last.implicit /\ sup_last.old.by = "supervisor")
        => sup_last.new.msg = sup_last.old.msg

(***************************************************************************)
(* Properties of the watcher, checked under Spec.  They read the record    *)
(* `last` of the latest step and the history `sent`, `idle_since`.         *)
(***************************************************************************)
Processed == last.op = "process"

AutoRun == args.thread_id = "auto"

Complete == last.ev.nfu = "false"

\* The event is the pair of the latest successful send before it.
SamePairAsLastSent ==
    /\ last.pre_sent.thread # NoThread
    /\ last.ev.thread = last.pre_sent.thread
    /\ last.ev.turn = last.pre_sent.turn

\* The event's thread is the thread the watcher is bound to when it evaluates it.
OfBoundThread == watched_thread # NoThread /\ last.ev.thread = watched_thread

\* The event's thread is not the one the watcher was bound to when it arrived.
OfOtherThread == last.pre_watched # NoThread /\ last.ev.thread # last.pre_watched

AnyGate ==
    last.gates.pause \/ last.gates.pane_pause \/ last.gates.inactive \/ last.gates.cooldown

IdleThreshold == Max0(args.auto_rebind_idle_secs)

IdleLong == last.tnow - last.pre_idle.at > IdleThreshold

\* C1: once a send for (thread, turn) has succeeded, processing the same complete
\* event again, from either source and with no other send in between, makes no
\* tmux_send call and writes no state.
C1_Idempotent ==
    (Processed /\ Complete /\ SamePairAsLastSent) => (last.calls = 0 /\ ~last.wrote)

C1_Witness ==
    Processed /\ Complete /\ SamePairAsLastSent /\ OfBoundThread /\ last.outcome = "duplicate"

\* C2: no (thread, turn) gets a send from the log tail's report and
\* another from the record tail's report.
C2_OneSendPerPair ==
    \A th \in Threads, t \in Turns :
        ~(<<th, t, "log">> \in sent.by /\ <<th, t, "rollout">> \in sent.by)

\* C3: a complete event of the bound thread that is not the last sent pair makes
\* exactly one tmux_send call when no gate (global pause, pane pause, pane inactive,
\* cooldown) is active, and none when one is.
C3_OneCallUnlessGated ==
    (Processed /\ Complete /\ OfBoundThread /\ ~SamePairAsLastSent)
        => last.calls = (IF AnyGate THEN 0 ELSE 1)

C3_Witness ==
    /\ Processed /\ Complete /\ OfBoundThread /\ ~SamePairAsLastSent
    /\ args.require_pane_active /\ ~AnyGate /\ last.calls = 1
    /\ last.pre_sent.thread # NoThread

\* C7: in auto mode, an event of thread B arriving when the bound thread A has
\* been idle longer than the threshold rebinds the watcher to B, logs
\* "auto-rebind", and is evaluated as an event of the bound thread.
C7_AutoRebind ==
    (Processed /\ AutoRun /\ OfOtherThread /\ IdleLong)
        => /\ watched_thread = last.ev.thread
           /\ \E i \in DOMAIN last.logged : last.logged[i] = "watch: auto-rebind"
           /\ last.outcome # "other thread"
           /\ (Complete /\ ~SamePairAsLastSent => last.calls = (IF AnyGate THEN 0 ELSE 1))

C7_Witness ==
    /\ Processed /\ AutoRun /\ OfOtherThread /\ IdleLong
    /\ ~last.pre_idle.startup
    /\ last.outcome = "continue: sent"

\* C8 as stated: in auto mode an event of another thread changes the binding or
\* causes a send only when the bound thread has been idle longer than the threshold.
C8_RebindOnlyWhenIdle ==
    (Processed /\ AutoRun /\ OfOtherThread
        /\ (watched_thread # last.pre_watched \/ last.calls > 0))
        => IdleLong

\* C8 amended: ... only when the bound thread has been idle longer than the
\* threshold, or was bound at startup and has had no event processed since.
C8_RebindOnlyWhenIdleOrUnseen ==
    (Processed /\ AutoRun /\ OfOtherThread
        /\ (watched_thread # last.pre_watched \/ last.calls > 0))
        => (IdleLong \/ last.pre_idle.startup)

C8_Witness ==
    /\ Processed /\ AutoRun /\ OfOtherThread /\ Complete
    /\ ~IdleLong /\ ~last.pre_idle.startup
    /\ watched_thread = last.pre_watched /\ last.outcome = "other thread"

\* C9: in explicit mode the bound thread never changes, and an event of another
\* thread causes no send and no state write.
C9_ExplicitFixed ==
    ~AutoRun
        => /\ watched_thread = args.thread_id
           /\ (Processed /\ last.ev.thread # args.thread_id
                  => last.calls = 0 /\ ~last.wrote)

C9_Witness ==
    /\ ~AutoRun /\ Processed /\ Complete
    /\ last.ev.thread # args.thread_id /\ last.outcome = "other thread"

\* The event passes the detector and the cooldown has elapsed.
Eligible == Processed /\ Complete /\ OfBoundThread /\ ~SamePairAsLastSent /\ ~last.gates.cooldown

Paused == last.gates.pause \/ last.gates.pane_pause

\* C10 as stated: while a pause sentinel exists no event is sent, and without one
\* an event that is of the bound thread, complete, not the last sent pair and
\* past the cooldown is sent.
C10_PauseGates ==
    /\ (Processed /\ Paused => last.calls = 0)
    /\ (Eligible /\ ~Paused => last.calls = 1)

\* C10 amended: ... and, under --require-pane-active, with the pane active.
C10_PauseGatesPaneActive ==
    /\ (Processed /\ Paused => last.calls = 0)
    /\ (Eligible /\ ~Paused /\ ~last.gates.inactive => last.calls = 1)

C10_Witness ==
    /\ Eligible /\ ~Paused /\ last.calls = 1
    /\ last.prev_outcome \in {"skip: pause file present", "skip: pane pause file present"}

\* The keys of the message the pane has received: the text and Enter, without
\* the key that leaves copy mode.
Injected == SelectSeq(last.keys, LAMBDA k : k # "cancel")

\* C11: one completion of the bound thread (not the last sent pair) processed
\* with no pause sentinel, the pane active if required, the cooldown elapsed and
\* the pane taking the text and Enter: the pane receives the message text once
\* and then Enter once, and the state file holds the event's turn and thread as
\* last_sent_turn and last_sent_thread.
C11_EndToEndSend ==
    (Processed /\ Complete /\ OfBoundThread /\ ~SamePairAsLastSent /\ ~AnyGate
        /\ last.accepting)
        => /\ Injected = <<"text", "C-m">>
           /\ state_file.exists
           /\ state_file.last_sent_turn = last.ev.turn
           /\ state_file.last_sent_thread = last.ev.thread

C11_Witness ==
    /\ Processed /\ Complete /\ OfBoundThread /\ ~SamePairAsLastSent /\ ~AnyGate
    /\ last.accepting /\ last.keys = <<"cancel", "text", "C-m">>
    /\ last.pre_sent.thread # NoThread
    /\ state_file.last_sent_turn = last.ev.turn

\* C12: a watcher that read (last_sent_turn, last_sent_thread) from the state
\* file when it started makes no tmux_send call for an event equal to that pair,
\* and a poll cycle emits no event from a file it has just opened.
C12_NoResendAfterRestart ==
    /\ (Processed /\ last.pre_sent.loaded[1] # NoThread
            /\ <<last.ev.thread, last.ev.turn>> = last.pre_sent.loaded)
          => last.calls = 0
    /\ (last.op = "poll" => \A i \in DOMAIN events : events[i].src \notin last.fresh)

\* The step is the processing of an event whose send fails.
FailedSend == last.op = "process" /\ last.outcome = "error: tmux send failed"

\* The completions of the current poll cycle whose send has failed.
FailedPairs == {<<f[1], f[2]>> : f \in sent.failed}

\* C13 as stated: a failed send leaves last_sent_turn, last_sent_thread, the
\* state file and the cooldown timestamp as they were, and a (thread, turn)
\* whose send has failed gets no tmux_send call afterwards.
C13_FailedSendNotRetried ==
    [][/\ FailedSend' => UNCHANGED <<last_sent_turn, last_sent_thread, state_file,
                                      last_send_time>>
       /\ (Processed' /\ <<last'.ev.thread, last'.ev.turn>> \in FailedPairs)
             => last'.calls = 0]_vars

\* C13 amended: a failed send leaves last_sent_turn, last_sent_thread, the state
\* file and the cooldown timestamp as they were, and the event is dropped after
\* its one tmux_send call; a later call for the same (thread, turn) is made only
\* for another event, delivered by a source again.
C13_FailedSendDropped ==
    [][FailedSend' => /\ UNCHANGED <<last_sent_turn, last_sent_thread, state_file,
                                     last_send_time>>
                      /\ events' = Tail(events)
                      /\ last'.calls = 1
                      /\ last'.ev = Head(events)]_vars

C13_Witness ==
    /\ FailedSend /\ state_file.exists
    /\ last.pre_sent.thread # NoThread
    /\ last_sent_turn = last.pre_sent.turn /\ last_sent_turn # last.ev.turn

\* C17: after two sends in a row have failed, status shows for the watcher a
\* state other than "running".
C17_FailuresShowInStatus ==
    (FailedSend /\ last.prev_outcome = "error: tmux send failed")
        => compute_state(FALSE, state_file.health) # "running"

\* ---------------------------------------------------------------------------
\* Pause, resume and stop (auto_continue_watchd.py)

\* What pause and resume have just signalled and printed, as C14 states it.
PauseExact ==
    sup_last.op = "pause" =>
        /\ sup_last.signalled = sup_last.found \ sup_last.was_stopped
        /\ \A p \in sup_last.found \cap sup_last.was_stopped :
              <<p, "already paused">> \in sup_last.reports

ResumeSignals == sup_last.op = "resume" => sup_last.signalled = sup_last.was_stopped

\* C14 as stated: pause signals only the watchers not yet stopped and reports
\* "already paused" for the others; resume signals only the stopped watchers
\* and reports "not paused" for the others.
C14_PauseResumeIdempotent ==
    /\ PauseExact
    /\ ResumeSignals
    /\ sup_last.op = "resume" =>
          \A p \in sup_last.found \ sup_last.was_stopped :
              <<p, "not paused">> \in sup_last.reports

\* C14 as the code has it: pause signals only the watchers not yet stopped and
\* reports "already paused" for the others; resume signals only the stopped
\* watchers, reports "not paused" for the others when it was given a target
\* and prints nothing for them when it was not; a pause right after a pause
\* of the same target, and a resume right after a resume, changes no process.
C14_PauseResumeSignals ==
    [][/\ PauseExact' /\ ResumeSignals'
       /\ sup_last'.op = "pause" => \A p \in sup_last'.found : proc'[p].stopped
       /\ sup_last'.op = "resume" =>
             /\ \A p \in sup_last'.found : ~proc'[p].stopped
             /\ \A p \in sup_last'.found \ sup_last'.was_stopped :
                   (<<p, "not paused">> \in sup_last'.reports) = (sup_last'.pane # "")
       /\ (sup_last.op \in {"pause", "resume"} /\ sup_last'.op = sup_last.op
              /\ sup_last'.pane = sup_last.pane)
             => proc' = proc]_vars

\* A resume without a target has passed over a running watcher.
C14_Witness ==
    /\ sup_last.op = "resume" /\ sup_last.pane = ""
    /\ sup_last.found \ sup_last.was_stopped # {}
    /\ sup_last.reports = {}

\* C15: after a stop, with or without a target, every watcher it addressed that
\* was stopped has been sent SIGCONT, so that none is left stopped with its
\* SIGTERM pending.
C15_StopResumesFirst ==
    sup_last.op \in {"stop", "stop_all"} =>
        \A p \in sup_last.found :
            /\ (p \in sup_last.was_stopped /\ proc[p].kind = "watcher")
                  => p \in sup_last.signalled
            /\ ~(proc[p].kind = "watcher" /\ proc[p].term /\ proc[p].stopped)

\* C16: a PID file that names no live watcher of its pane (a dead process, or
\* a live process of another kind that has the pid now) never makes start
\* report "already running" and end without the scan.
C16_PidFileNeverDecides ==
    (sup_last.op = "check" /\ pid_file[sup_last.pane] \notin watcher_pids_for_pane(sup_last.pane))
        => /\ sup_last.outcome # "already running"
           /\ inv[sup_last.i].pc = "scan"

\* C18: a supervisor step that reads a state file (restart looking for the
\* thread id, status looking for the health) never finds it empty or partial.
C18_StateFileReadWhole == sup_last.op \in {"prepare", "status"} => ~sup_last.torn

\* ---------------------------------------------------------------------------
\* Status (auto_continue_watchd.py)

\* The live watcher processes a status of the target is about.
InScope(target) ==
    {p \in Pids : proc[p].kind = "watcher" /\ (target = "" \/ proc[p].pane = target)}

C20_SentinelsOnlyExternal == [][sentinels' # sentinels => sup_last'.op = "sentinel"]_vars

\* The cleanup of main has removed files of STATE_DIR while a sentinel was
\* there.
C20_Witness ==
    /\ sup_last.op \in {"begin", "stop_all"}
    /\ sup_last.unlinked # {}
    /\ sentinels # {}

\* ---------------------------------------------------------------------------
\* Message meta (auto_continue_watchd.py)

\* C21: the cleanup that main runs before a restart does not remove the message
\* meta of the pane the restart is about to read, whatever has become of the
\* pane's watcher and its state file.
C21_MetaKeptForRestart ==
    (sup_last.op = "begin" /\ inv[sup_last.i].pc = "prepare")
        => MetaFileName(sup_last.pane) \notin sup_last.unlinked

(***************************************************************************)
(* Gates, cooldown and the detector (auto_continue_logwatch.py), checked   *)
(* under Spec.                                                             *)
(***************************************************************************)
\* The event passes the detector: complete, of the bound thread, not the last
\* sent pair.
Candidate == Complete /\ OfBoundThread /\ ~SamePairAsLastSent

\* The skip reasons of the gates, in the order of the specification.
GateReasons ==
    <<"skip: pause file present", "skip: pane pause file present", "skip: pane inactive",
      "skip: cooldown">>

\* Which gates are shut for the event, in the same order.
GateShut ==
    <<last.gates.pause, last.gates.pane_pause, last.gates.inactive, last.gates.cooldown>>

Gated == \E i \in 1..4 : last.outcome = GateReasons[i]

\* C22: an event that passes the detector is stopped by the first gate that is
\* shut, in the order global pause, pane pause, pane inactive, cooldown, and
\* that gate's reason alone is logged; a stopped event makes no tmux_send call
\* and leaves last_sent_turn, last_sent_thread, the state file and the
\* cooldown timestamp as they were; the last sent pair is dropped as a
\* duplicate before any gate is looked at, no gate's reason being logged.
C22_GateOrder ==
    [][Processed' =>
          /\ \A i \in 1..4 :
                (last'.outcome = GateReasons[i])
                    = (Candidate' /\ GateShut'[i] /\ \A j \in 1..(i - 1) : ~GateShut'[j])
          /\ Gated' => /\ last'.calls = 0
                       /\ UNCHANGED <<last_sent_turn, last_sent_thread, state_file,
                                       last_send_time>>
                       /\ {last'.logged[i] : i \in DOMAIN last'.logged} \cap
                              {GateReasons[i] : i \in 1..4} = {last'.outcome}
          /\ (Complete' /\ OfBoundThread' /\ SamePairAsLastSent')
                => /\ last'.outcome = "duplicate"
                   /\ \A i \in DOMAIN last'.logged, j \in 1..4 :
                         last'.logged[i] # GateReasons[j]]_vars

\* An event is stopped by the global pause while the pane pause and the
\* cooldown are shut too; before it, the last sent pair was dropped with the
\* global pause shut.
C22_Witness ==
    /\ Processed /\ last.outcome = "skip: pause file present"
    /\ last.gates.pane_pause /\ last.gates.cooldown
    /\ last.prev_outcome = "duplicate"

\* The step is the processing of an event that is sent.
Sent == last.op = "process" /\ last.outcome = "continue: sent"

\* C23: a successful send comes no sooner after the previous successful send of
\* the same watcher process than the cooldown (0 when negative); the cooldown
\* timestamp changes only in a successful send, which sets it to the time the
\* event was processed at (and in the start of a new process); an event
\* skipped for cooldown is dropped without a tmux_send call.
C23_Cooldown ==
    [][/\ (Sent' /\ sent.at # 0) => last'.tnow - sent.at >= Max0(args.cooldown_secs)
       /\ last_send_time' # last_send_time
             => \/ Sent' /\ last_send_time' = last'.tnow
                \/ last'.op = "start"
       /\ (Processed' /\ last'.outcome = "skip: cooldown")
             => (events' = Tail(events) /\ last'.calls = 0 /\ last'.ev = Head(events))]_vars

\* A second send of a process that has a cooldown, made after the clock has
\* gone on.
C23_Witness ==
    /\ Sent /\ last.pre_sent.at # 0 /\ args.cooldown_secs > 0
    /\ last.tnow > last.pre_sent.at

\* C24: an event whose needs_follow_up is not "false" makes no tmux_send call
\* and leaves last_sent_turn, last_sent_thread, the state file and the
\* cooldown timestamp as they were; in auto mode it binds or rebinds the
\* watcher like any other event, and when it is of the bound thread it sets
\* the time of that thread's last event.
C24_IncompleteNeverSent ==
    [][(Processed' /\ ~Complete') =>
          /\ last'.calls = 0 /\ ~last'.wrote
          /\ last'.outcome \in {"other thread", "needs follow up"}
          /\ UNCHANGED <<last_sent_turn, last_sent_thread, state_file, last_send_time>>
          /\ (AutoRun /\ (watched_thread = NoThread \/ RebindDue(last'.tnow)))
                => watched_thread' = last'.ev.thread
          /\ (AutoRun /\ watched_thread' = last'.ev.thread)
                => watched_last_event_at' = last'.tnow]_vars

\* An incomplete event has made the watcher leave the thread it was bound to.
C24_Witness ==
    /\ Processed /\ ~Complete /\ AutoRun
    /\ last.pre_watched # NoThread /\ watched_thread # last.pre_watched
    /\ last.outcome = "needs follow up"

(***************************************************************************)
(* Properties of the tail, checked under SpecTail.                         *)
(***************************************************************************)
\* The file at the path has been truncated or replaced while the reader had its
\* handle on it.
WasCut == file.gen > 1 /\ tail_last.held

\* The lines of the file the handle is past: it will not read them.
Behind == IF fh.open /\ fh.ino = file.ino /\ file.exists
          THEN {i \in 1..Len(file.lines) : i <= fh.pos} ELSE {}

\* After a poll, no completion line appended after a truncation or rotation has
\* been passed over.
TailLosesNothing ==
    (WasCut /\ tail_last.op = "poll")
        => \A i \in Behind : file.lines[i] = "completion" => <<file.gen, i>> \in emitted

\* C25: the tail survives truncation and rotation: every completion line
\* appended to the file after it was truncated or replaced becomes an event;
\* stated for finite runs, after a poll no such line is behind the reader's
\* handle without having become one.
C25_TailSurvives == TailLosesNothing

(***************************************************************************)
(* Properties of the rollout tracking, checked under Spec.                 *)
(***************************************************************************)
\* The step has left the event's thread bound in place of another one.
Rebound(l) == l.op = "process" /\ \E i \in DOMAIN l.logged : l.logged[i] = "watch: auto-rebind"

\* The step is a poll cycle that has searched SESSIONS_DIR for the rollout file.
Searched ==
    /\ last'.op = "poll"
    /\ (last_rollout_scan' # last_rollout_scan \/ rollout_path' # rollout_path)

\* C26: a rebind leaves the rollout handle closed, no rollout path tracked and
\* the rescan timer cleared; the poll cycle that finds them so searches, and for
\* the file of the thread then bound; a search is made only while no rollout
\* file is tracked and more than 5 seconds after the one before, unless the
\* timer was cleared in between.
C26_RebindResetsRollout ==
    [][/\ Rebound(last')
          => (~rollout_fh'.open /\ rollout_path' = NoThread /\ last_rollout_scan' = 0)
       /\ (last'.op = "poll" /\ rollout_path = NoThread /\ last_rollout_scan = 0)
          => (last_rollout_scan' = now /\ rollout_path' \in {NoThread, watched_thread'})
       /\ Searched
          => (rollout_path = NoThread /\ now - last_rollout_scan > RescanSecs)]_vars

\* A rebind has closed the handle on the rollout file of the thread that was
\* bound, from which a line had been read.
C26_Witness ==
    /\ Rebound(last) /\ last.pre_watched # NoThread
    /\ used.rollout > 0 /\ used.restarts = 0
    /\ ~rollout_fh.open /\ rollout_path = NoThread /\ last_rollout_scan = 0

\* C27: the rollout source makes an event only of a task_complete record with
\* a turn id, the event carries the complete flag and the thread bound when the
\* line was read, and no line stops the tail; stated for finite runs, the
\* events a poll has collected from the rollout file are of that form and the
\* watcher process has not ended.
C27_RolloutRecordsOnly ==
    /\ alive
    /\ last.op = "poll"
        => \A i \in DOMAIN events :
              events[i].src = "rollout"
                  => /\ events[i].nfu = "false"
                     /\ events[i].turn # NoTurn
                     /\ events[i].thread = watched_thread

(***************************************************************************)
(* Properties of the merge of the two sources, checked under Spec.         *)
(***************************************************************************)
\* No event of the rollout file stands before an event of the log.
LogFirst(e) ==
    \A i, j \in DOMAIN e : (i < j) => ~(e[i].src = "rollout" /\ e[j].src = "log")

\* C28: the events of a poll cycle are collected from the log and then from the
\* rollout file, and both are drained before the first is processed: a cycle
\* begins only when the events of the one before are all processed, its list
\* holds the log's events before the rollout file's, and processing takes the
\* events from the front of the list, to which nothing is added meanwhile.
C28_MergeOrder ==
    [][/\ last'.op = "poll" => (events = <<>> /\ LogFirst(events'))
       /\ last'.op = "process"
          => (events # <<>> /\ last'.ev = Head(events) /\ events' = Tail(events))
       /\ LogFirst(events) => LogFirst(events')]_vars

\* An event of the log has been processed and one of the rollout file, collected
\* in the same cycle, is next.
C28_Witness ==
    /\ last.op = "process" /\ last.ev.src = "log"
    /\ events # <<>> /\ events[1].src = "rollout"

(***************************************************************************)
(* Properties of tmux_send, checked under SpecTmux.                        *)
(***************************************************************************)
\* The send-keys commands of one attempt: copy mode is left when the pane is in
\* it, the text is injected, Enter is sent.
Attempt(in_mode) == (IF in_mode THEN <<"cancel">> ELSE <<>>) \o <<"text", "C-m">>

\* The sub-operations of an attempt that failed.
Failures(text_ok, enter_ok) ==
    (IF text_ok THEN <<>> ELSE <<"send-text rc">>)
    \o (IF enter_ok THEN <<>> ELSE <<"send-enter rc">>)

\* C29: tmux_send makes one attempt, and a second one exactly when the first
\* failed; each attempt leaves copy mode when the pane is in it, injects the text
\* and sends Enter; the call succeeds exactly when the last attempt made
\* succeeded in both, then with no detail, and fails only when both attempts
\* failed, then with the detail of the first and of the second attempt.
C29_SendTwoAttempts ==
    tmux_call.made =>
        LET a == tmux_call.answers
            r == tmux_call.result
            first_ok == a.text1 /\ a.enter1
            second_ok == a.text2 /\ a.enter2
        IN  /\ r.attempts = (IF first_ok THEN 1 ELSE 2)
            /\ r.calls = Attempt(a.mode1) \o (IF first_ok THEN <<>> ELSE Attempt(a.mode2))
            /\ r.ok = (first_ok \/ second_ok)
            /\ r.ok => r.detail = <<>>
            /\ ~r.ok => /\ Failures(a.text1, a.enter1) # <<>>
                        /\ Failures(a.text2, a.enter2) # <<>>
                        /\ r.detail = Failures(a.text1, a.enter1) \o <<"retry:">>
                                       \o Failures(a.text2, a.enter2)

\* Both attempts have failed, the second after leaving copy mode.
C29_Witness ==
    /\ tmux_call.made /\ ~tmux_call.result.ok
    /\ tmux_call.answers.mode2 /\ ~tmux_call.answers.mode1
    /\ tmux_call.result.attempts = 2

(***************************************************************************)
(* Properties of restart, checked under SpecSup.                           *)
(***************************************************************************)
\* The latest step has ended a restart of a pane for which one watcher ran when
\* the restart stopped the pane's watchers.
RestartEnded ==
    /\ sup_last.op \in {"check", "scan", "verify"}
    /\ inv[sup_last.i] = IdleInv
    /\ sup_last.old # NoProc

\* C30: a restart of a pane whose watcher is running ends with exactly one
\* live watcher for the pane, a process the restart has spawned, running with
\* the message and, when one is given or kept, the thread the restart has
\* chosen, whether or not the old process has exited when start looks at the
\* process list; a new watcher that exits within start's 0.2 s is left aside.
C30_RestartReplaces ==
    (RestartEnded /\ sup_last.outcome # "failed: watcher exited immediately")
        => /\ sup_last.op = "verify" /\ sup_last.outcome = "started"
           /\ LiveWatchers(sup_last.pane) = {sup_last.child}
           /\ proc[sup_last.child].by = "supervisor"
           /\ proc[sup_last.child].msg = sup_last.chosen.msg
           /\ sup_last.chosen.thread \notin {NoThread, "auto"}
                  => proc[sup_last.child].thread = sup_last.chosen.thread

(***************************************************************************)
(* Properties of restart-all, checked under SpecAll.                       *)
(***************************************************************************)
\* The latest step has ended what restart-all does for a pane that tmux shows:
\* cmd_restart has returned or has ended the process.
AllPaneEnded ==
    /\ sup_last.all
    /\ sup_last.op \in {"check", "scan", "verify"}
    /\ inv[sup_last.i].pc \in {"all", "idle"}

\* The watchers of a pane are terminated and none is started only when tmux
\* has no such pane.
AllKillsOrphansOnly ==
    (sup_last.op = "all_orphan" /\ sup_last.found # {}) => ~sup_last.exists

\* A pane that tmux shows gets a watcher that restart-all has spawned and found
\* alive.
AllRestartsShown ==
    AllPaneEnded
        => /\ sup_last.op = "verify" /\ sup_last.outcome = "started"
           /\ proc[sup_last.child].kind = "watcher"

\* C31: restart-all handles every known pane key: it terminates the watchers
\* of a pane without starting one only when the pane no longer exists in
\* tmux, and every known pane that still exists is restarted.
C31_RestartAllHandlesEvery == AllKillsOrphansOnly /\ AllRestartsShown

(***************************************************************************)
(* Properties of the PID file of start, checked under SpecSup.             *)
(***************************************************************************)
\* A step writes a pid into the PID file of a pane.
PidFileWritten ==
    \/ sup_last'.pid_written # NoPid
    \/ \E k \in Panes : pid_file'[k] # NoPid /\ pid_file'[k] # pid_file[k]

\* The step is the one after the grace period that finds the spawned watcher
\* alive, and the PID file of the pane holds the pid of that watcher.
RegistersChild ==
    /\ sup_last'.op = "verify" /\ sup_last'.outcome = "started"
    /\ inv[sup_last'.i].pc = "verify" /\ sup_last'.child = inv[sup_last'.i].child
    /\ proc'[sup_last'.child].kind = "watcher"
    /\ proc'[sup_last'.child].by = "supervisor"
    /\ sup_last'.pid_written = sup_last'.child
    /\ \A k \in Panes :
          pid_file'[k] = (IF k = sup_last'.pane THEN sup_last'.child ELSE pid_file[k])

\* The step is the scan of start that finds exactly one watcher running for the
\* pane and writes the pid of that watcher; start spawns nothing.
RegistersFound ==
    /\ sup_last'.op = "scan" /\ sup_last'.outcome = "already running"
    /\ sup_last'.found = {sup_last'.pid_written}
    /\ proc'[sup_last'.pid_written].kind = "watcher"
    /\ proc' = proc
    /\ \A k \in Panes :
          pid_file'[k] = (IF k = sup_last'.pane THEN sup_last'.pid_written ELSE pid_file[k])

\* The step after the grace period finds that the spawned watcher has exited:
\* the PID file of the pane is gone and start ends with exit status 1.
FailedStartCleans ==
    (sup_last'.op = "verify" /\ sup_last' # sup_last /\ sup_last'.outcome # "started")
        => /\ sup_last'.outcome = "failed: watcher exited immediately"
           /\ pid_file'[sup_last'.pane] = NoPid
           /\ inv'[sup_last'.i] = IdleInv

\* C32 as stated: start writes the PID file of the pane only after the spawned
\* watcher is found alive at the end of the grace period, and with the pid of
\* that process; when the watcher has exited by then, start removes the PID
\* file and fails, so that a failed start leaves no PID file for the pane.
C32_PidFileOnlyAfterGrace ==
    [][(PidFileWritten => RegistersChild) /\ FailedStartCleans]_vars

\* C32, amended: a start that spawns a watcher writes the PID file of the pane
\* only after the watcher is found alive at the end of the grace period, and
\* with the pid of that process; the one other write is that of a start that
\* finds exactly one watcher already running for the pane and records its pid
\* without spawning.  When the spawned watcher has exited by the end of the
\* grace period, start removes the PID file and fails.
C32_PidFileAfterGraceOrAdopted ==
    [][(PidFileWritten => RegistersChild \/ RegistersFound) /\ FailedStartCleans]_vars

\* A start has found its child alive and has written its pid.
C32_Witness ==
    /\ sup_last.op = "verify" /\ sup_last.outcome = "started"
    /\ pid_file[sup_last.pane] = sup_last.child
    /\ proc[sup_last.child].kind = "watcher"

\* A start has found that its child has exited.
C32_WitnessFailed ==
    /\ sup_last.op = "verify" /\ sup_last.outcome = "failed: watcher exited immediately"
    /\ pid_file[sup_last.pane] = NoPid

(***************************************************************************)
(* Properties of the thread resolution, checked under SpecThread.          *)
(***************************************************************************)
\* The first of the three strategies, in the order open file descriptor,
\* shell snapshot, controlling terminal, that has found a thread id.
FirstFound ==
    IF call.fd # NoThread THEN [id |-> call.fd, run |-> <<"fd">>]
    ELSE IF call.snapshot # NoThread THEN [id |-> call.snapshot, run |-> <<"fd", "snapshot">>]
    ELSE [id |-> call.tty, run |-> <<"fd", "snapshot", "tty">>]

\* C33: a requested thread id that is well formed is used, in small letters,
\* and no detection is run; a requested id that is neither "auto" nor well
\* formed ends start with exit status 1; otherwise the strategies are run in
\* the order open file descriptor, shell snapshot, controlling terminal up to
\* the first that finds a thread id, which is the result, and when none finds
\* one the result is "auto" and start goes on.
C33_ThreadResolution ==
    (call.fn = "resolve_thread_id" /\ call.made) =>
        IF call.requested \in {"A", UpperA}
        THEN call.result = "A" /\ call.run = <<>>
        ELSE IF call.requested \notin {"", "auto"}
        THEN call.result = ExitError /\ call.run = <<>>
        ELSE /\ call.run = FirstFound.run
             /\ call.result = (IF FirstFound.id # NoThread THEN FirstFound.id ELSE "auto")
             /\ call.result # ExitError

\* The id was asked for in capitals.
C33_Witness ==
    /\ call.fn = "resolve_thread_id" /\ call.made
    /\ call.requested = UpperA /\ call.result = "A"

\* No thread was asked for, the first strategy found none and the two others
\* found different threads.
C33_WitnessOrder ==
    /\ call.fn = "resolve_thread_id" /\ call.made
    /\ call.requested = "" /\ call.fd = NoThread
    /\ call.snapshot = "B" /\ call.tty = "A" /\ call.result = "B"

(***************************************************************************)
(* Properties of the target resolution, checked under SpecWindow.          *)
(***************************************************************************)
\* The listed panes of the window the target names.
Matching ==
    {i \in DOMAIN call.listing :
        /\ call.listing # NoListing
        /\ call.listing[i].window = call.target.window
        /\ (call.target.session # "" => call.listing[i].session = call.target.session)}

MatchingSessions == {call.listing[i].session : i \in Matching}

\* The sessions, of those that have the window, in which it is the active one.
ActiveSessions == {call.listing[i].session : i \in {j \in Matching : call.listing[j].window_active}}

\* The line of the pane that was returned.
ResultRows == {i \in Matching : call.listing[i].pane = call.result}

\* The listed panes of the window of the session that was selected.
InSelected(i) == {j \in Matching : call.listing[j].session = call.listing[i].session}

\* C34: window-target resolution never guesses: for a bare window index whose
\* panes lie in more than one session it succeeds only when exactly one of
\* those sessions has the window active, and then with a pane of that session,
\* and fails otherwise; whenever it succeeds the result is the active pane of
\* the selected window, or its first listed pane when none is active.
C34_WindowNeverGuesses ==
    (call.fn = "resolve_pane_target" /\ call.made
        /\ call.target.form \in {"window", "session:window"}) =>
        /\ (call.target.form = "window" /\ Cardinality(MatchingSessions) > 1)
              => /\ call.result # ExitError <=> Cardinality(ActiveSessions) = 1
                 /\ call.result # ExitError
                       => \A i \in ResultRows : call.listing[i].session \in ActiveSessions
        /\ call.result # ExitError
              => /\ Cardinality(ResultRows) = 1
                 /\ \A i \in ResultRows :
                       \/ call.listing[i].pane_active
                       \/ /\ \A j \in InSelected(i) : ~call.listing[j].pane_active
                          /\ \A j \in InSelected(i) : i <= j
        /\ call.result = ExitError
              => \/ Matching = {}
                 \/ call.target.form = "window" /\ Cardinality(MatchingSessions) > 1

\* A bare window index, the window in two sessions and active in the second
\* one listed only: the pane returned is of that session.
C34_Witness ==
    /\ call.fn = "resolve_pane_target" /\ call.made
    /\ call.target.form = "window" /\ Cardinality(MatchingSessions) > 1
    /\ Cardinality(ActiveSessions) = 1
    /\ call.result # ExitError
    /\ \E i \in Matching : call.listing[i].session \notin ActiveSessions /\ i = 1

\* A bare window index and the window active in two sessions: an error.
C34_WitnessAmbiguous ==
    /\ call.fn = "resolve_pane_target" /\ call.made
    /\ call.target.form = "window" /\ Cardinality(ActiveSessions) > 1
    /\ call.result = ExitError

(***************************************************************************)
(* Properties of the message meta file, checked under SpecMeta.            *)
(***************************************************************************)
\* C35: reading the message meta after writing (mode, value) returns exactly
\* (mode, value), for both modes and every value: one of several lines, one
\* that ends in a newline, one with a line that starts with "mode=" or with
\* "value=".
C35_MetaRoundTrip ==
    (call.fn = "message_meta" /\ call.made)
        => call.result = [mode |-> call.mode, value |-> call.value]

\* The round trip of the values that do not end in a newline and have no line
\* that starts with one of the two prefixes.
MetaRoundTripPlain ==
    (/\ call.fn = "message_meta" /\ call.made
     /\ call.value # <<>> => call.value[Len(call.value)] # "\n"
     /\ \A i \in DOMAIN call.value :
           call.value[i] \in {"mode=", "value="} => i > 1 /\ call.value[i - 1] # "\n")
        => call.result = [mode |-> call.mode, value |-> call.value]

(***************************************************************************)
(* Properties of a suspended watcher, checked under SpecPause.             *)
(***************************************************************************)
\* The lines appended while the watcher was suspended that are in the file.
SleptInFile ==
    {l \in tail_last.slept : file.exists /\ l[1] = file.gen /\ l[2] <= Len(file.lines)}

\* A suspended watcher makes no event, and so no send.
SuspendedEmitsNothing == [][Suspended => emitted' = emitted /\ fh' = fh]_vars

\* After a poll cycle of a watcher that had its handle on the file when it
\* was suspended, every completion line appended during the suspension has
\* become an event.
ResumeReadsAll ==
    tail_last.op = "poll"
        => \A l \in SleptInFile : file.lines[l[2]] = "completion" => l \in emitted

\* The same while the file is neither truncated nor replaced.
ResumeReadsAllUncut ==
    (tail_last.op = "poll" /\ tail_last.cuts = 0)
        => \A l \in SleptInFile : file.lines[l[2]] = "completion" => l \in emitted

\* A completion line appended during the suspension has become an event after
\* the resume.
ResumeReadsWitness ==
    /\ tail_last.op = "poll" /\ tail_last.cuts = 0
    /\ \E l \in SleptInFile : file.lines[l[2]] = "completion" /\ l \in emitted

\* C36: a watcher that pause has suspended sends nothing while suspended;
\* after resume it reads every line appended to its sources during the
\* suspension and processes the completions among them as fresh events;
\* stated for finite runs, after its poll cycle no completion line appended
\* during the suspension is left without an event.
C36_ResumeReadsSuspended == ResumeReadsAll

(***************************************************************************)
(* Properties of what the pane receives, checked under SpecTmux.           *)
(***************************************************************************)
\* The keys the pane has received over the call, the key that leaves copy mode
\* left out.
Typed == SelectSeq(tmux_call.result.keys, LAMBDA k : k # "cancel")

\* C37: whenever tmux_send reports success the pane has received the message
\* text exactly once, followed by Enter, over the whole call, also when the
\* first attempt failed in one of its two send-keys calls and the retry
\* succeeded.
C37_SuccessTypesOnce ==
    (tmux_call.made /\ tmux_call.result.ok)
        => /\ Cardinality({i \in DOMAIN Typed : Typed[i] = "text"}) = 1
           /\ \A i \in DOMAIN Typed :
                 Typed[i] = "text" => i < Len(Typed) /\ Typed[i + 1] = "C-m"

\* The same for the calls whose first attempt succeeds or fails in both of its
\* send-keys calls.
SuccessTypesOnceClean ==
    (/\ tmux_call.made /\ tmux_call.result.ok
     /\ tmux_call.answers.text1 = tmux_call.answers.enter1)
        => Typed = <<"text", "C-m">>

\* A first attempt in which only the text fails leaves an Enter before the text.
SuccessAfterLostText ==
    (/\ tmux_call.made /\ tmux_call.result.ok
     /\ ~tmux_call.answers.text1 /\ tmux_call.answers.enter1)
        => Typed = <<"C-m", "text", "C-m">>

(***************************************************************************)
(* Properties of the tracked rollout file, checked under Spec.             *)
(***************************************************************************)
\* The tracked rollout file, when one is tracked, is a file of the watched
\* thread; none is tracked while no thread is bound.
TrackedIsOfWatched ==
    /\ rollout_path # NoThread => rollout_path = watched_thread
    /\ watched_thread = NoThread => rollout_path = NoThread /\ ~rollout_fh.open

\* C38: the tracked rollout file, when set, is a rollout file of the watched
\* thread, and it is unset whenever no thread is bound; every event a poll
\* cycle makes from the rollout file carries the thread of that file.
C38_TrackedRolloutOfWatched ==
    [][/\ TrackedIsOfWatched /\ TrackedIsOfWatched'
       /\ events = <<>> =>
             \A i \in DOMAIN events' :
                 events'[i].src = "rollout"
                     => events'[i].thread = rollout_path' /\ rollout_path' # NoThread]_vars

\* A poll cycle of an auto-mode watcher has made an event from the tracked
\* rollout file, which is that of the watched thread.
C38_Witness ==
    /\ auto_mode /\ last.op = "poll"
    /\ \E i \in DOMAIN events : events[i].src = "rollout" /\ events[i].thread = rollout_path
    /\ rollout_path = watched_thread

(***************************************************************************)
(* Properties of the persisted watcher state, checked under Spec.          *)
(***************************************************************************)
\* The state file holds the watcher's last sent pair, and its thread_id is the
\* thread of that pair.
StateFileIsLastSent ==
    /\ state_file.exists
    /\ state_file.last_sent_turn = last_sent_turn
    /\ state_file.last_sent_thread = last_sent_thread
    /\ state_file.thread_id = state_file.last_sent_thread
    /\ state_file.thread_id = watched_thread

\* C39: after every write of the state file by the watcher, its last_sent_turn
\* and last_sent_thread are the watcher's last sent pair and its thread_id is
\* its last_sent_thread; the file is written only by the step that has made a
\* successful send.
C39_StateFileAfterSend ==
    [][/\ (last'.op = "process" /\ last'.wrote) => StateFileIsLastSent'
       /\ state_file' # state_file
             => /\ last'.op = "process" /\ last'.wrote /\ last'.calls = 1
                /\ last'.outcome = "continue: sent"
                /\ last_sent_turn' = last'.ev.turn /\ last_sent_thread' = last'.ev.thread]_vars

\* An auto-mode watcher has sent for an event that made it leave the thread it
\* had sent for before, and has written the state file.
C39_Witness ==
    /\ last.op = "process" /\ last.wrote
    /\ last.pre_sent.thread # NoThread /\ last.pre_sent.thread # last.ev.thread
    /\ state_file.thread_id = last.ev.thread
    /\ state_file.last_sent_turn = last.ev.turn

(***************************************************************************)
(* Properties of the signals of stop, checked under SpecSup.               *)
(***************************************************************************)
\* The processes the latest step, a stop, has sent SIGCONT or SIGTERM.
StopSignalled ==
    IF sup_last.op \in {"stop", "stop_all"} THEN sup_last.found \cup sup_last.signalled
    ELSE {}

\* No process that is not a watcher has been sent SIGTERM.
NoStrangerTerminated == \A p \in Pids : proc[p].term => proc[p].kind = "watcher"

\* C40: stop, with a target or without one, sends SIGCONT and SIGTERM only to
\* watcher processes, also when a PID file holds the pid of a live process
\* that is no watcher.
C40_StopSignalsWatchersOnly ==
    /\ \A p \in StopSignalled : proc[p].kind = "watcher"
    /\ NoStrangerTerminated

\* Stop with a target signals the watchers the process listing shows for the
\* pane and no other process.
StopPaneSignalsWatchersOnly ==
    sup_last.op = "stop"
        => \A p \in StopSignalled : proc[p].kind = "watcher" /\ proc[p].pane = sup_last.pane

====
